---- MODULE Spec2Model ----
(***************************************************************************)
(* Link-to-Social agent: the workflow coordinator (workflow/coordinator.py),*)
(* the text stage (agents/summarization_agent.py), the image stage          *)
(* (agents/creative_agent.py) and the POST /process handler (app.py).       *)
(*                                                                          *)
(* Python values are records [ty, v]: ty is the Python type and v is always *)
(* a sequence of strings (the characters of a str, the items of a list,     *)
(* empty for None and for an int).  A dict is a TLA+ record; {} is the      *)
(* record with no field.  A message is a sequence of string parts, "" is    *)
(* the empty sequence.  The remote providers are the environment: what they *)
(* answer is drawn from the sets TextOutcomes and ImageOutcomes.            *)
(***************************************************************************)
EXTENDS Integers, Sequences, FiniteSets, TLC

VARIABLES
    settings,        \* config.settings: is venice_api_key non-blank
    clients,         \* the requests the environment submits in this behaviour
    pc,              \* pc[r]: where request r's coroutine stands
    request,         \* request[r]: the arguments the caller supplied
    args,            \* args[r]: the arguments Coordinator.process_url was called with
    state,           \* state[r]: the request's WorkflowState dict (audit_trail apart)
    audit_trail,     \* audit_trail[r]: the list object state["audit_trail"] refers to
    frame,           \* frame[r]: locals of the node that is suspended in an await
    calls,           \* calls[r]: the provider requests issued for r, in order
    posts_returned,  \* posts_returned[r]: what the SummarizationAgent returned
    images_returned, \* images_returned[r]: what CreativeAgent.generate_images returned
    writes,          \* writes[r]: number of assignments to state["final_output"]
    result,          \* result[r]: what Coordinator.process_url returned
    response         \* response[r]: the HTTP response of POST /process

vars == <<settings, clients, pc, request, args, state, audit_trail, frame, calls,
          posts_returned, images_returned, writes, result, response>>

-----------------------------------------------------------------------------
(* Program constants and the bounds of the model *)

TWITTER_CAP == 280
TWITTER_KEEP == 277
LINKEDIN_FALLBACK == 500
PREVIEW_LEN == 200
TITLE_LEN == 60

Overshoot == 20
NumInsights == 3

Requests == {"req1", "req2"}

-----------------------------------------------------------------------------
(* Python values *)

EmptyDict == [k \in {} |-> k]

Get(d, k, default) == IF k \in DOMAIN d THEN d[k] ELSE default

Str(s) == [ty |-> "str", v |-> s]
List(items) == [ty |-> "list", v |-> items]
None == [ty |-> "NoneType", v |-> <<>>]
PyInt == [ty |-> "int", v |-> <<>>]

HasLen(x) == x.ty \in {"str", "list"}
PyLen(x) == Len(x.v)
Truthy(x) == \/ x.ty = "int"
             \/ HasLen(x) /\ x.v # <<>>

Digit == <<"0", "1", "2", "3", "4", "5", "6", "7", "8", "9">>
Chars(n) == [i \in 1..n |-> Digit[(i % 10) + 1]]

Min(a, b) == IF a < b THEN a ELSE b
Slice(s, n) == SubSeq(s, 1, Min(n, Len(s)))
Drop(s, n) == SubSeq(s, n + 1, Len(s))
DropLast(s, n) == SubSeq(s, 1, Len(s) - n)
StartsWith(s, p) == Len(s) >= Len(p) /\ SubSeq(s, 1, Len(p)) = p
EndsWith(s, p) == Len(s) >= Len(p) /\ SubSeq(s, Len(s) - Len(p) + 1, Len(s)) = p

RECURSIVE LStrip(_)
LStrip(s) == IF s # <<>> /\ Head(s) = " " THEN LStrip(Tail(s)) ELSE s
RECURSIVE RStrip(_)
RStrip(s) == IF s # <<>> /\ s[Len(s)] = " " THEN RStrip(DropLast(s, 1)) ELSE s
Strip(s) == RStrip(LStrip(s))

Return(val) == [ok |-> TRUE, val |-> val]
Raise(msg) == [ok |-> FALSE, exc |-> msg]

TypeErrorLen(x) == <<"object of type '", x.ty, "' has no len()">>
TypeErrorConcat == <<"can only concatenate list (not \"str\") to list">>
TypeErrorSubscript(x) == <<"'", x.ty, "' object is not subscriptable">>
AttributeErrorGet(ty) == <<"'", ty, "' object has no attribute 'get'">>

-----------------------------------------------------------------------------
(* The text provider (Venice chat/completions), as the agent sees it *)

\* the backquote character, which the lexer does not take inside a string
BackQuote == "<backquote>"
FenceJson == <<BackQuote, BackQuote, BackQuote, "j", "s", "o", "n">>
Fence == <<BackQuote, BackQuote, BackQuote>>
Ellipsis == <<".", ".", ".">>
Untitled == Str(<<"U", "n", "t", "i", "t", "l", "e", "d", " ",
                  "A", "r", "t", "i", "c", "l", "e">>)
DefaultTitle == Str(<<"A", "r", "t", "i", "c", "l", "e">>)
Title == Str(<<"A", "I", " ", "n", "e", "w", "s">>)
Insights == List([i \in 1..NumInsights |-> "insight"])

\* json.loads(text): a decode error, or the value the text denotes.
DecodeError == [ok |-> FALSE, ty |-> "none", d |-> EmptyDict]
JsonDict(d) == [ok |-> TRUE, ty |-> "dict", d |-> d]
JsonOther(ty) == [ok |-> TRUE, ty |-> ty, d |-> EmptyDict]

\* The message content of a 200 answer: its text, and what json.loads makes
\* of that text once the fences are stripped.
Content(text, loads) == [text |-> text, loads |-> loads]

Doc(tw) == [linkedin_post |-> Str(Chars(12)), twitter_post |-> tw,
            key_insights |-> Insights, article_title |-> Title,
            article_author |-> None, article_date |-> Str(Chars(4))]
Braces == <<"{", "}">>

TwitterLens == {5, TWITTER_CAP, TWITTER_CAP + 1, TWITTER_CAP + Overshoot}

ObjectContents ==
    {Content(Braces, JsonDict(Doc(Str(Chars(n))))) : n \in TwitterLens}
    \cup {Content(Braces, JsonDict(Doc(List(Chars(n))))) :
              n \in {2, TWITTER_CAP + 1}}
    \cup {Content(Braces, JsonDict(Doc(x))) : x \in {None, PyInt}}
    \cup {Content(Braces, JsonDict(EmptyDict)),
          Content(Braces, JsonDict([Doc(Str(Chars(5))) EXCEPT !.linkedin_post = None])),
          Content(Braces, JsonDict([Doc(Str(Chars(5))) EXCEPT !.key_insights = None])),
          Content(Braces, JsonDict([Doc(Str(Chars(5))) EXCEPT !.article_title = None]))}

NonObjectContents ==
    {Content(<<"[", "]">>, JsonOther("list")),
     Content(<<"n", "u", "l", "l">>, JsonOther("NoneType")),
     Content(<<"4", "2">>, JsonOther("int"))}

MalformedContents ==
    {Content(Chars(n), DecodeError) :
         n \in {9, TWITTER_CAP + 1, LINKEDIN_FALLBACK + Overshoot}}
    \cup {Content(<<" ">> \o FenceJson \o Chars(TWITTER_CAP + 2) \o Fence \o <<" ">>,
                  DecodeError)}

Contents == ObjectContents \cup NonObjectContents \cup MalformedContents
                \cup {Content(<<>>, DecodeError)}

HttpAnswer(status, choices, content) ==
    [kind |-> "response", status |-> status, choices |-> choices,
     content |-> content, error_msg |-> "upstream says no"]

FailureStatuses == {401, 402, 429, 500, 503}

TransportFailures ==
    {HttpAnswer(s, FALSE, Content(<<>>, DecodeError)) : s \in FailureStatuses}
    \cup {[kind |-> "client_error"], [kind |-> "timeout"]}

TextOutcomes ==
    {HttpAnswer(200, TRUE, c) : c \in Contents}
    \cup {HttpAnswer(200, FALSE, Content(<<>>, DecodeError))}
    \cup TransportFailures

MsgNoKey == <<"Venice API key is not configured. Please set VENICE_API_KEY environment variable.">>
MsgInvalidFormat == <<"Invalid response format from Venice API">>
MsgEmpty == <<"Empty response from API">>
MsgApiError(o) == <<"Venice API error ", ToString(o.status), ": ", o.error_msg>>
MsgNetwork == <<"Network error: Unable to connect to Venice API. ", "<ClientError>">>

\* SummarizationAgent._call_venice_api (enable_web_scraping = True)
call_venice_api(key_set, o) ==
    IF ~key_set THEN Raise(MsgNoKey)
    ELSE IF o.kind = "client_error" THEN Raise(MsgNetwork)
    ELSE IF o.kind = "timeout"
    THEN Raise(<<"Request timed out. The URL might be too complex or Venice API is experiencing delays.">>)
    ELSE IF o.status = 200
    THEN IF o.choices THEN Return(o.content) ELSE Raise(MsgInvalidFormat)
    ELSE IF o.status = 401
    THEN Raise(<<"Venice API authentication failed. Please check your API key is set correctly in Railway environment variables.">>)
    ELSE IF o.status = 402
    THEN Raise(<<"Venice API payment required. Please check your account balance at venice.ai">>)
    ELSE IF o.status = 429
    THEN Raise(<<"Venice API rate limit exceeded. Please try again in a few moments.">>)
    ELSE IF o.status = 500
    THEN Raise(<<"Web scraping failed: Venice.ai could not access this URL.">>)
    ELSE Raise(MsgApiError(o))

\* SummarizationAgent._call_venice_api_direct (enable_web_scraping = False)
call_venice_api_direct(key_set, o) ==
    IF ~key_set THEN Raise(MsgNoKey)
    ELSE IF o.kind = "client_error" THEN Raise(MsgNetwork)
    ELSE IF o.kind = "timeout"
    THEN Raise(<<"Request timed out. Please try again later.">>)
    ELSE IF o.status = 200
    THEN IF o.choices THEN Return(o.content) ELSE Raise(MsgInvalidFormat)
    ELSE IF o.status = 401
    THEN Raise(<<"Venice API authentication failed. Please check your API key.">>)
    ELSE IF o.status = 402
    THEN Raise(<<"Venice API payment required. Please check your account balance.">>)
    ELSE IF o.status = 429
    THEN Raise(<<"Venice API rate limit exceeded. Please try again later.">>)
    ELSE Raise(MsgApiError(o))

StripFences(text) ==
    LET a == Strip(text)
        b == IF StartsWith(a, FenceJson) THEN Drop(a, Len(FenceJson)) ELSE a
        c == IF StartsWith(b, Fence) THEN Drop(b, Len(Fence)) ELSE b
        d == IF EndsWith(c, Fence) THEN DropLast(c, Len(Fence)) ELSE c
    IN  Strip(d)

Posts(linkedin, twitter, insights, title, author, date) ==
    [linkedin_post |-> linkedin, twitter_post |-> twitter, key_insights |-> insights,
     article_title |-> title, article_author |-> author, article_date |-> date]

\* truncate_twitter with the slice taken at the cap, not three short of it
truncate_twitter_at_cap(twitter_post) ==
    IF ~HasLen(twitter_post) THEN Raise(TypeErrorLen(twitter_post))
    ELSE IF PyLen(twitter_post) > TWITTER_CAP
    THEN IF twitter_post.ty = "str"
         THEN Return(Str(Slice(twitter_post.v, TWITTER_CAP) \o Ellipsis))
         ELSE Raise(TypeErrorConcat)
    ELSE Return(twitter_post)

\* the "Ensure Twitter post is under 280 chars" step of _parse_response
truncate_twitter(twitter_post) ==
    IF ~HasLen(twitter_post) THEN Raise(TypeErrorLen(twitter_post))
    ELSE IF PyLen(twitter_post) > TWITTER_CAP
    THEN IF twitter_post.ty = "str"
         THEN Return(Str(Slice(twitter_post.v, TWITTER_KEEP) \o Ellipsis))
         ELSE Raise(TypeErrorConcat)
    ELSE Return(twitter_post)

\* the except json.JSONDecodeError branch of _parse_response
parse_fallback(response_text) ==
    Posts(Str(Slice(response_text, LINKEDIN_FALLBACK)),
          Str(Slice(response_text, TWITTER_CAP)),
          List(<<>>), Untitled, None, None)

\* parse_response that lets the decode error out
parse_response_strict(content) ==
    LET data == content.loads
    IN  IF ~data.ok THEN Raise(<<"Expecting value: line 1 column 1 (char 0)">>)
        ELSE IF data.ty # "dict" THEN Raise(AttributeErrorGet(data.ty))
        ELSE LET twitter == truncate_twitter(Get(data.d, "twitter_post", Str(<<>>)))
             IN  IF ~twitter.ok THEN twitter
                 ELSE Return(Posts(Get(data.d, "linkedin_post", Str(<<>>)),
                                   twitter.val,
                                   Get(data.d, "key_insights", List(<<>>)),
                                   Get(data.d, "article_title", Untitled),
                                   Get(data.d, "article_author", None),
                                   Get(data.d, "article_date", None)))

\* SummarizationAgent._parse_response
parse_response(content) ==
    LET response_text == StripFences(content.text)
        data == content.loads
    IN  IF ~data.ok THEN Return(parse_fallback(response_text))
        ELSE IF data.ty # "dict" THEN Raise(AttributeErrorGet(data.ty))
        ELSE LET twitter == truncate_twitter(Get(data.d, "twitter_post", Str(<<>>)))
             IN  IF ~twitter.ok THEN twitter
                 ELSE Return(Posts(Get(data.d, "linkedin_post", Str(<<>>)),
                                   twitter.val,
                                   Get(data.d, "key_insights", List(<<>>)),
                                   Get(data.d, "article_title", Untitled),
                                   Get(data.d, "article_author", None),
                                   Get(data.d, "article_date", None)))

ErrorPosts(msg) ==
    [status |-> "error", error |-> msg, linkedin_post |-> None, twitter_post |-> None]

SuccessPosts(posts) ==
    [status |-> "success",
     linkedin_post |-> Get(posts, "linkedin_post", Str(<<>>)),
     twitter_post |-> Get(posts, "twitter_post", Str(<<>>)),
     key_insights |-> Get(posts, "key_insights", List(<<>>)),
     article_title |-> Get(posts, "article_title", Str(<<>>)),
     article_author |-> Get(posts, "article_author", None),
     article_date |-> Get(posts, "article_date", None)]

\* the body both generate_posts and generate_posts_from_text run on the
\* outcome of their provider call
posts_from(called) ==
    IF ~called.ok THEN ErrorPosts(called.exc)
    ELSE IF called.val.text = <<>> THEN ErrorPosts(MsgEmpty)
    ELSE LET posts == parse_response(called.val)
         IN  IF posts.ok THEN SuccessPosts(posts.val) ELSE ErrorPosts(posts.exc)

\* SummarizationAgent.generate_posts
generate_posts(key_set, o) == posts_from(call_venice_api(key_set, o))

\* SummarizationAgent.generate_posts_from_text
generate_posts_from_text(key_set, o) == posts_from(call_venice_api_direct(key_set, o))

-----------------------------------------------------------------------------
(* The image provider (Venice image/generate) and the CreativeAgent *)

PayloadA == Str(<<"U", "k", "l", "G", "R", "g", "=", "=">>)
PayloadB == Str(<<"V", "0", "V", "C", "U", "A">>)

ImageAnswer(status, images) ==
    [kind |-> "response", status |-> status, images |-> images,
     error_text |-> "image backend down"]

\* images: the "images" array of the answer, a sequence of Python values
ImageOutcomes ==
    {ImageAnswer(200, <<p>>) : p \in {PayloadA, PayloadB, None}}
    \cup {ImageAnswer(200, <<>>), ImageAnswer(500, <<>>)}
    \cup {[kind |-> "client_error"], [kind |-> "timeout"]}

\* CreativeAgent._generate_image, on the provider's answer
generate_image(o) ==
    IF o.kind = "client_error" THEN Raise(<<"Cannot connect to host">>)
    ELSE IF o.kind = "timeout" THEN Raise(<<>>)
    ELSE IF o.status = 200
    THEN IF o.images # <<>> THEN Return(o.images[1])
         ELSE Raise(<<"No image in response">>)
    ELSE Raise(<<"Image API error ", ToString(o.status), ": ", o.error_text>>)

ErrorImages(msg) ==
    [status |-> "error", error |-> msg, infographic_image |-> None,
     social_image |-> None]

SuccessImages(infographic_image, social_image) ==
    [status |-> "success", infographic_image |-> infographic_image,
     social_image |-> social_image]

\* the title[:60] of _generate_social_image
social_prompt(title) ==
    IF title.ty = "str" THEN Return(Slice(title.v, TITLE_LEN))
    ELSE Raise(TypeErrorSubscript(title))

-----------------------------------------------------------------------------
(* The audit trail *)

AuditEntry(agent, step, status, duration_ms, input, output) ==
    [agent |-> agent, step |-> step, status |-> status,
     duration_ms |-> duration_ms, input |-> input, output |-> output]

\* add_audit_entry that puts the newest entry first
add_audit_entry_first(trail, entry) == <<entry>> \o trail

\* Coordinator._add_audit_entry: append to the list object
add_audit_entry(trail, entry) == Append(trail, entry)

\* A value that holds an audit trail: the request's own list object, or a
\* list object of its own.
SameList == [alias |-> TRUE, items |-> <<>>]
OwnList(items) == [alias |-> FALSE, items |-> items]

Num(n) == [ty |-> "int", v |-> <<>>, n |-> n]

-----------------------------------------------------------------------------
(* Coordinator.process_url, up to the call of the graph *)

MsgNoInput == <<"Either URL (with use_web_scraping=True) or article_text must be provided">>
MsgUrlRequired == <<"URL is required when use_web_scraping is True">>

\* validate without its second check
validate_skips_url_check(url, article_text, use_web_scraping) ==
    IF url = "" /\ article_text = <<>> THEN Raise(MsgNoInput)
    ELSE Return(TRUE)

\* validate without its first check
validate_skips_empty_check(url, article_text, use_web_scraping) ==
    IF use_web_scraping /\ url = "" THEN Raise(MsgUrlRequired)
    ELSE Return(TRUE)

\* validate with a third check: a url without the flag needs a text
validate_requires_source(url, article_text, use_web_scraping) ==
    IF url = "" /\ article_text = <<>> THEN Raise(MsgNoInput)
    ELSE IF use_web_scraping /\ url = "" THEN Raise(MsgUrlRequired)
    ELSE IF ~use_web_scraping /\ article_text = <<>> THEN Raise(MsgNoInput)
    ELSE Return(TRUE)

\* the two checks both app.process_url and Coordinator.process_url make
validate(url, article_text, use_web_scraping) ==
    IF url = "" /\ article_text = <<>> THEN Raise(MsgNoInput)
    ELSE IF use_web_scraping /\ url = "" THEN Raise(MsgUrlRequired)
    ELSE Return(TRUE)

Rejected(msg) == [status |-> "error", error |-> msg, audit_trail |-> OwnList(<<>>)]

initial_state(a) ==
    [url |-> a.url, article_text |-> a.article_text,
     use_web_scraping |-> a.use_web_scraping, posts_data |-> EmptyDict,
     images_data |-> EmptyDict, final_output |-> EmptyDict, error |-> <<>>]

workflow_start(a) ==
    AuditEntry("System", "workflow_start", "success", "0",
        [method |-> IF a.use_web_scraping /\ a.url # "" THEN "url_with_scraping"
                    ELSE "direct_text",
         url |-> IF a.url # "" THEN Str(<<a.url>>) ELSE None,
         text_length |-> IF a.article_text # <<>> THEN Num(Len(a.article_text))
                         ELSE None],
        [workflow_initialized |-> TRUE])

-----------------------------------------------------------------------------
(* Coordinator._summarizer_node *)

\* input_method with "or" for "and" in use_scraping
input_method_or(st) ==
    IF st.use_web_scraping \/ st.url # "" \/ st.article_text # <<>> THEN "url"
    ELSE "none"

\* input_method that takes the text whenever there is one
input_method_prefers_text(st) ==
    IF st.article_text # <<>> THEN "text"
    ELSE IF st.use_web_scraping /\ st.url # "" THEN "url"
    ELSE "none"

\* "Determine input method": which provider request the node makes
input_method(st) ==
    IF st.use_web_scraping /\ st.url # "" THEN "url"
    ELSE IF st.article_text # <<>> THEN "text"
    ELSE "none"

summarizer_input(st) ==
    IF input_method(st) = "url"
    THEN [type |-> "url", url |-> st.url, method |-> "venice_web_scraping"]
    ELSE [type |-> "text", text_length |-> Len(st.article_text),
          text_preview |-> IF Len(st.article_text) > PREVIEW_LEN
                           THEN Slice(st.article_text, PREVIEW_LEN) \o Ellipsis
                           ELSE st.article_text,
          method |-> "direct_text"]

\* summarizer_except without the assignment to state["error"]
summarizer_except_no_error(st, trail, msg) ==
    [state |-> [st EXCEPT !.posts_data = [status |-> "error", error |-> msg]],
     trail |-> add_audit_entry(trail,
        AuditEntry("SummarizationAgent", "generate_posts", "error", "elapsed",
            [type |-> IF st.url # "" THEN "url" ELSE "text", url |-> st.url,
             text_length |-> Len(st.article_text)],
            [error |-> msg]))]

\* the except Exception branch of the node
summarizer_except(st, trail, msg) ==
    [state |-> [st EXCEPT !.error = <<"Summarizer error: ">> \o msg,
                          !.posts_data = [status |-> "error", error |-> msg]],
     trail |-> add_audit_entry(trail,
        AuditEntry("SummarizationAgent", "generate_posts", "error", "elapsed",
            [type |-> IF st.url # "" THEN "url" ELSE "text", url |-> st.url,
             text_length |-> Len(st.article_text)],
            [error |-> msg]))]

\* the len() calls that build output_data, in order; the first that raises
output_lengths(posts_data) ==
    LET linkedin == Get(posts_data, "linkedin_post", Str(<<>>))
        twitter == Get(posts_data, "twitter_post", Str(<<>>))
        insights == Get(posts_data, "key_insights", List(<<>>))
    IN  IF ~HasLen(linkedin) THEN Raise(TypeErrorLen(linkedin))
        ELSE IF ~HasLen(twitter) THEN Raise(TypeErrorLen(twitter))
        ELSE IF ~HasLen(insights) THEN Raise(TypeErrorLen(insights))
        ELSE Return([linkedin_post_length |-> PyLen(linkedin),
                     twitter_post_length |-> PyLen(twitter),
                     key_insights_count |-> PyLen(insights)])

\* the node from the agent's return to its end
summarizer_after(st, trail, posts_data) ==
    LET lens == output_lengths(posts_data)
        failed == <<"Post generation failed: ">>
                      \o Get(posts_data, "error", <<"Unknown error">>)
    IN  IF ~lens.ok THEN summarizer_except(st, trail, lens.exc)
        ELSE IF posts_data.status # "success"
        THEN [state |-> [st EXCEPT !.posts_data = posts_data, !.error = failed],
              trail |-> add_audit_entry(trail,
                 AuditEntry("SummarizationAgent", "generate_posts", "error",
                            "elapsed", summarizer_input(st), [error |-> failed]))]
        ELSE [state |-> [st EXCEPT !.posts_data = posts_data],
              trail |-> add_audit_entry(trail,
                 AuditEntry("SummarizationAgent", "generate_posts", "success",
                            "elapsed", summarizer_input(st),
                     [status |-> posts_data.status,
                      linkedin_post_length |-> lens.val.linkedin_post_length,
                      twitter_post_length |-> lens.val.twitter_post_length,
                      key_insights_count |-> lens.val.key_insights_count,
                      article_title |-> Get(posts_data, "article_title", Str(<<>>)),
                      article_author |-> Get(posts_data, "article_author", None),
                      article_date |-> Get(posts_data, "article_date", None)]))]

-----------------------------------------------------------------------------
(* Coordinator._creative_node *)

\* creative_skip that logs the skip as a success
creative_skip_as_success(st, trail) ==
    [state |-> [st EXCEPT !.images_data =
                    [status |-> "error", error |-> <<"Previous step failed">>]],
     trail |-> add_audit_entry(trail,
        AuditEntry("CreativeAgent", "generate_images", "success", "0",
                   [reason |-> "skipped_due_to_error"],
                   [error |-> <<"Previous step failed">>]))]

\* "Skip if previous step failed"
creative_skip(st, trail) ==
    [state |-> [st EXCEPT !.images_data =
                    [status |-> "error", error |-> <<"Previous step failed">>]],
     trail |-> add_audit_entry(trail,
        AuditEntry("CreativeAgent", "generate_images", "error", "0",
                   [reason |-> "skipped_due_to_error"],
                   [error |-> <<"Previous step failed">>]))]

article_title(st) == Get(st.posts_data, "article_title", DefaultTitle)

creative_input(st) ==
    [article_title |-> article_title(st),
     key_insights_count |-> PyLen(Get(st.posts_data, "key_insights", List(<<>>))),
     images_to_generate |-> <<"infographic", "social_media">>]

\* creative_except that logs nothing
creative_except_no_entry(st, trail, msg) ==
    [state |-> [st EXCEPT !.error = <<"Creative error: ">> \o msg,
                          !.images_data = [status |-> "error", error |-> msg]],
     trail |-> trail]

\* the except Exception branch of the node
creative_except(st, trail, msg) ==
    [state |-> [st EXCEPT !.error = <<"Creative error: ">> \o msg,
                          !.images_data = [status |-> "error", error |-> msg]],
     trail |-> add_audit_entry(trail,
        AuditEntry("CreativeAgent", "generate_images", "error", "elapsed",
                   [error |-> "exception"], [error |-> msg]))]

\* creative_after with the two images themselves in the success entry
creative_after_logs_images(st, trail, images_data) ==
    [state |-> [st EXCEPT !.images_data = images_data,
                          !.error = IF images_data.status # "success"
                                    THEN <<"Image generation failed: ">>
                                    ELSE @],
     trail |-> add_audit_entry(trail,
        AuditEntry("CreativeAgent", "generate_images", images_data.status,
                   "elapsed", creative_input(st),
                   [status |-> images_data.status,
                    article_title |-> images_data.infographic_image]))]

\* the node from generate_images' return to its end
creative_after(st, trail, images_data) ==
    LET failed == <<"Image generation failed: ">>
                      \o Get(images_data, "error", <<"Unknown error">>)
        infographic == Get(images_data, "infographic_image", Str(<<>>))
        social == Get(images_data, "social_image", Str(<<>>))
    IN  IF images_data.status # "success"
        THEN [state |-> [st EXCEPT !.images_data = images_data, !.error = failed],
              trail |-> add_audit_entry(trail,
                 AuditEntry("CreativeAgent", "generate_images", "error", "elapsed",
                            creative_input(st), [error |-> failed]))]
        ELSE IF ~HasLen(infographic)
        THEN creative_except(st, trail, TypeErrorLen(infographic))
        ELSE IF ~HasLen(social)
        THEN creative_except(st, trail, TypeErrorLen(social))
        ELSE [state |-> [st EXCEPT !.images_data = images_data],
              trail |-> add_audit_entry(trail,
                 AuditEntry("CreativeAgent", "generate_images", "success", "elapsed",
                            creative_input(st),
                     [status |-> "success",
                      infographic_generated |-> Truthy(infographic),
                      social_image_generated |-> Truthy(social),
                      infographic_size_chars |-> PyLen(infographic),
                      social_image_size_chars |-> PyLen(social)]))]

-----------------------------------------------------------------------------
(* Coordinator._coordinator_node *)

\* the final output given a copy of the list as it stands
trail_copied(trail) == OwnList(trail)

\* state.get("audit_trail", []) as stored in the final output: the list
\* object itself, not a copy of it
trail_in_output(trail) == SameList

\* error_output that also hands out what the text stage produced
error_output_with_posts(st, trail) ==
    [status |-> "error", error |-> st.error, url |-> st.url,
     posts |-> st.posts_data, audit_trail |-> SameList]

error_output(st, trail) ==
    [status |-> "error", error |-> st.error, url |-> st.url,
     audit_trail |-> trail_in_output(trail)]

success_output(st, trail) ==
    [status |-> "success", url |-> st.url,
     article |-> [title |-> Get(st.posts_data, "article_title", Str(<<>>)),
                  author |-> Get(st.posts_data, "article_author", None),
                  date |-> Get(st.posts_data, "article_date", None),
                  url |-> st.url],
     posts |-> [linkedin |-> Get(st.posts_data, "linkedin_post", Str(<<>>)),
                twitter |-> Get(st.posts_data, "twitter_post", Str(<<>>)),
                key_insights |-> Get(st.posts_data, "key_insights", List(<<>>))],
     images |-> [infographic |-> Get(st.images_data, "infographic_image", None),
                 social |-> Get(st.images_data, "social_image", None)],
     audit_trail |-> trail_in_output(trail)]

OutputKeys == <<"status", "url", "article", "posts", "images", "audit_trail">>

\* coordinator_node that logs compile_output as a success on both branches
coordinator_node_logs_success(st, trail) ==
    IF st.error # <<>>
    THEN [state |-> [st EXCEPT !.final_output = error_output(st, trail)],
          trail |-> add_audit_entry(trail,
             AuditEntry("Coordinator", "compile_output", "success", "0",
                        [has_error |-> TRUE], [error |-> st.error]))]
    ELSE [state |-> [st EXCEPT !.final_output = success_output(st, trail)],
          trail |-> add_audit_entry(trail,
             AuditEntry("Coordinator", "compile_output", "success", "elapsed",
                 [posts_data_available |-> st.posts_data # EmptyDict,
                  images_data_available |-> st.images_data # EmptyDict,
                  posts_status |-> Get(st.posts_data, "status", "None"),
                  images_status |-> Get(st.images_data, "status", "None")],
                 [status |-> "success", output_keys |-> OutputKeys,
                  audit_trail_entries |-> Len(trail)]))]

\* coordinator_node that decides on the status of the posts
coordinator_node_by_posts(st, trail) ==
    IF Get(st.posts_data, "status", "error") # "success"
    THEN [state |-> [st EXCEPT !.final_output = error_output(st, trail)],
          trail |-> add_audit_entry(trail,
             AuditEntry("Coordinator", "compile_output", "error", "0",
                        [has_error |-> TRUE], [error |-> st.error]))]
    ELSE [state |-> [st EXCEPT !.final_output = success_output(st, trail)],
          trail |-> add_audit_entry(trail,
             AuditEntry("Coordinator", "compile_output", "success", "elapsed",
                 [posts_data_available |-> st.posts_data # EmptyDict,
                  images_data_available |-> st.images_data # EmptyDict,
                  posts_status |-> Get(st.posts_data, "status", "None"),
                  images_status |-> Get(st.images_data, "status", "None")],
                 [status |-> "success", output_keys |-> OutputKeys,
                  audit_trail_entries |-> Len(trail)]))]

\* Coordinator._coordinator_node
coordinator_node(st, trail) ==
    IF st.error # <<>>
    THEN [state |-> [st EXCEPT !.final_output = error_output(st, trail)],
          trail |-> add_audit_entry(trail,
             AuditEntry("Coordinator", "compile_output", "error", "0",
                        [has_error |-> TRUE], [error |-> st.error]))]
    ELSE [state |-> [st EXCEPT !.final_output = success_output(st, trail)],
          trail |-> add_audit_entry(trail,
             AuditEntry("Coordinator", "compile_output", "success", "elapsed",
                 [posts_data_available |-> st.posts_data # EmptyDict,
                  images_data_available |-> st.images_data # EmptyDict,
                  posts_status |-> Get(st.posts_data, "status", "None"),
                  images_status |-> Get(st.images_data, "status", "None")],
                 [status |-> "success", output_keys |-> OutputKeys,
                  audit_trail_entries |-> Len(trail)]))]

\* workflow_complete with the status read from the state, not from its
\* final output
workflow_complete_from_state(st, trail) ==
    add_audit_entry(trail,
        AuditEntry("System", "workflow_complete",
                   Get(st, "status", "error"), "elapsed",
                   [total_duration_ms |-> "elapsed"],
                   [status |-> Get(st, "status", "unknown"),
                    total_audit_entries |-> Len(trail)]))

\* workflow_complete that counts its own entry
workflow_complete_counts_itself(st, trail) ==
    add_audit_entry(trail,
        AuditEntry("System", "workflow_complete",
                   Get(st.final_output, "status", "error"), "elapsed",
                   [total_duration_ms |-> "elapsed"],
                   [status |-> Get(st.final_output, "status", "unknown"),
                    total_audit_entries |-> Len(trail) + 1]))

\* the "Add final audit entry" step of process_url
workflow_complete(st, trail) ==
    add_audit_entry(trail,
        AuditEntry("System", "workflow_complete",
                   Get(st.final_output, "status", "error"), "elapsed",
                   [total_duration_ms |-> "elapsed"],
                   [status |-> Get(st.final_output, "status", "unknown"),
                    total_audit_entries |-> Len(trail)]))

-----------------------------------------------------------------------------
(* The requests the environment makes *)

Urls == {"", "https://example.com/article"}
ArticleTexts == {<<>>, Chars(28), Chars(PREVIEW_LEN + 1)}
Callers == {"http", "direct"}

TextCall(scraping) == [api |-> "chat/completions", enable_web_scraping |-> scraping]
ImageCall(which) == [api |-> "image/generate", enable_web_scraping |-> FALSE,
                     image |-> which]

Init ==
    /\ settings \in [venice_api_key_set : BOOLEAN]
    /\ clients = {"req1"}
    /\ pc = [r \in Requests |-> "new"]
    /\ request = [r \in Requests |-> EmptyDict]
    /\ args = [r \in Requests |-> EmptyDict]
    /\ state = [r \in Requests |-> EmptyDict]
    /\ audit_trail = [r \in Requests |-> <<>>]
    /\ frame = [r \in Requests |-> EmptyDict]
    /\ calls = [r \in Requests |-> <<>>]
    /\ posts_returned = [r \in Requests |-> EmptyDict]
    /\ images_returned = [r \in Requests |-> EmptyDict]
    /\ writes = [r \in Requests |-> 0]
    /\ result = [r \in Requests |-> EmptyDict]
    /\ response = [r \in Requests |-> EmptyDict]

\* A caller issues POST /process, or calls Coordinator.process_url itself.
Submit(r, via, url, article_text, use_web_scraping) ==
    /\ r \in clients
    /\ pc[r] = "new"
    /\ request' = [request EXCEPT ![r] =
           [via |-> via, url |-> url, article_text |-> article_text,
            use_web_scraping |-> use_web_scraping]]
    /\ args' = IF via = "direct"
               THEN [args EXCEPT ![r] = [url |-> url, article_text |-> article_text,
                                         use_web_scraping |-> use_web_scraping]]
               ELSE args
    /\ pc' = [pc EXCEPT ![r] = IF via = "http" THEN "app" ELSE "process_url"]
    /\ UNCHANGED <<settings, clients, state, audit_trail, frame, calls,
                   posts_returned, images_returned, writes, result, response>>

-----------------------------------------------------------------------------
(* app.process_url: POST /process *)

\* "Validate input" fails: HTTPException(400), re-raised by the handler
AppReject(r) ==
    /\ pc[r] = "app"
    /\ LET v == validate(request[r].url, request[r].article_text,
                         request[r].use_web_scraping)
       IN  /\ ~v.ok
           /\ response' = [response EXCEPT ![r] =
                  [status_code |-> 400,
                   detail |-> IF v.exc = MsgNoInput
                              THEN <<"Either 'url' (with use_web_scraping=True) or 'article_text' must be provided">>
                              ELSE MsgUrlRequired]]
    /\ pc' = [pc EXCEPT ![r] = "done"]
    /\ UNCHANGED <<settings, clients, request, args, state, audit_trail, frame,
                   calls, posts_returned, images_returned, writes, result>>

\* validation passes: coordinator.process_url(url_str, article_text, flag)
AppCall(r) ==
    /\ pc[r] = "app"
    /\ validate(request[r].url, request[r].article_text,
                request[r].use_web_scraping).ok
    /\ args' = [args EXCEPT ![r] =
           [url |-> request[r].url, article_text |-> request[r].article_text,
            use_web_scraping |-> request[r].use_web_scraping]]
    /\ pc' = [pc EXCEPT ![r] = "process_url"]
    /\ UNCHANGED <<settings, clients, request, state, audit_trail, frame, calls,
                   posts_returned, images_returned, writes, result, response>>

\* respond without the test of the result's status
respond_always_ok(res, trail) ==
    [status_code |-> 200,
     content |-> [res EXCEPT !.audit_trail =
                     OwnList(IF res.audit_trail.alias THEN trail
                             ELSE res.audit_trail.items)]]

\* respond that sends the trail of a failed run along with the detail
respond_error_with_trail(res, trail) ==
    IF Get(res, "status", "None") = "error"
    THEN [status_code |-> 400, detail |-> Get(res, "error", <<"Processing failed">>),
          audit_trail |-> OwnList(IF res.audit_trail.alias THEN trail
                                  ELSE res.audit_trail.items)]
    ELSE [status_code |-> 200,
          content |-> [res EXCEPT !.audit_trail =
                          OwnList(IF res.audit_trail.alias THEN trail
                                  ELSE res.audit_trail.items)]]

\* the coordinator returned: 400 with the error as detail, or 200 with the
\* result serialised as it stands at that moment
respond(res, trail) ==
    IF Get(res, "status", "None") = "error"
    THEN [status_code |-> 400, detail |-> Get(res, "error", <<"Processing failed">>)]
    ELSE [status_code |-> 200,
          content |-> [res EXCEPT !.audit_trail =
                          OwnList(IF res.audit_trail.alias THEN trail
                                  ELSE res.audit_trail.items)]]

AppRespond(r) ==
    /\ pc[r] = "returned"
    /\ request[r].via = "http"
    /\ response' = [response EXCEPT ![r] = respond(result[r], audit_trail[r])]
    /\ pc' = [pc EXCEPT ![r] = "done"]
    /\ UNCHANGED <<settings, clients, request, args, state, audit_trail, frame,
                   calls, posts_returned, images_returned, writes, result>>

\* an exception left coordinator.process_url: except ValueError answers 400,
\* except Exception answers 500
AppExcept(r) ==
    /\ pc[r] = "raised"
    /\ request[r].via = "http"
    /\ response' = [response EXCEPT ![r] =
           IF frame[r].exception = "ValueError"
           THEN [status_code |-> 400, detail |-> <<"Invalid input: ">> \o frame[r].msg]
           ELSE [status_code |-> 500,
                 detail |-> <<"Internal server error: ">> \o frame[r].msg]]
    /\ pc' = [pc EXCEPT ![r] = "done"]
    /\ UNCHANGED <<settings, clients, request, args, state, audit_trail, frame,
                   calls, posts_returned, images_returned, writes, result>>

-----------------------------------------------------------------------------
(* Coordinator.process_url *)

ProcessUrlReject(r) ==
    /\ pc[r] = "process_url"
    /\ LET v == validate(args[r].url, args[r].article_text, args[r].use_web_scraping)
       IN  /\ ~v.ok
           /\ result' = [result EXCEPT ![r] = Rejected(v.exc)]
    /\ pc' = [pc EXCEPT ![r] = "returned"]
    /\ UNCHANGED <<settings, clients, request, args, state, audit_trail, frame,
                   calls, posts_returned, images_returned, writes, response>>

\* initial_state, the workflow_start entry, and the call of the graph
ProcessUrlStart(r) ==
    /\ pc[r] = "process_url"
    /\ validate(args[r].url, args[r].article_text, args[r].use_web_scraping).ok
    /\ state' = [state EXCEPT ![r] = initial_state(args[r])]
    /\ audit_trail' = [audit_trail EXCEPT ![r] =
                          add_audit_entry(<<>>, workflow_start(args[r]))]
    /\ pc' = [pc EXCEPT ![r] = "summarizer"]
    /\ UNCHANGED <<settings, clients, request, args, frame, calls, posts_returned,
                   images_returned, writes, result, response>>

\* the graph returned: the workflow_complete entry, then the final output
ProcessUrlFinish(r) ==
    /\ pc[r] = "workflow_complete"
    /\ audit_trail' = [audit_trail EXCEPT ![r] = workflow_complete(state[r], @)]
    /\ result' = [result EXCEPT ![r] = state[r].final_output]
    /\ pc' = [pc EXCEPT ![r] = "returned"]
    /\ UNCHANGED <<settings, clients, request, args, state, frame, calls,
                   posts_returned, images_returned, writes, response>>

-----------------------------------------------------------------------------
(* The graph: summarizer -> creative -> coordinator -> END *)

\* Finish with the state kept in one attribute of the Coordinator, which
\* every request in flight reads
Finish_on_instance(r, out, next) ==
    /\ state' = [q \in Requests |->
                    IF q = r \/ state[q] # EmptyDict THEN out.state ELSE state[q]]
    /\ audit_trail' = [q \in Requests |->
                          IF q = r \/ state[q] # EmptyDict THEN out.trail
                          ELSE audit_trail[q]]
    /\ pc' = [pc EXCEPT ![r] = next]

\* a node returns: the request's state and list as the node left them
Finish(r, out, next) ==
    /\ state' = [state EXCEPT ![r] = out.state]
    /\ audit_trail' = [audit_trail EXCEPT ![r] = out.trail]
    /\ pc' = [pc EXCEPT ![r] = next]

\* neither branch applies: the node raises ValueError and catches it
SummarizerNoSource(r) ==
    /\ pc[r] = "summarizer"
    /\ input_method(state[r]) = "none"
    /\ Finish(r, summarizer_except(state[r], audit_trail[r],
           <<"Either URL with web scraping enabled or article_text must be provided">>),
           "creative")
    /\ UNCHANGED <<settings, clients, request, args, frame, calls, posts_returned,
                   images_returned, writes, result, response>>

\* the agent is called and raises before any request: no API key
SummarizerNoKey(r) ==
    /\ pc[r] = "summarizer"
    /\ input_method(state[r]) # "none"
    /\ ~settings.venice_api_key_set
    /\ LET posts_data == ErrorPosts(MsgNoKey)
       IN  /\ posts_returned' = [posts_returned EXCEPT ![r] = posts_data]
           /\ Finish(r, summarizer_after(state[r], audit_trail[r], posts_data),
                     "creative")
    /\ UNCHANGED <<settings, clients, request, args, frame, calls,
                   images_returned, writes, result, response>>

\* the agent posts its one request to the text provider and awaits the answer
SummarizerRequest(r) ==
    /\ pc[r] = "summarizer"
    /\ input_method(state[r]) # "none"
    /\ settings.venice_api_key_set
    /\ calls' = [calls EXCEPT ![r] =
                    Append(@, TextCall(input_method(state[r]) = "url"))]
    /\ pc' = [pc EXCEPT ![r] = "await_text"]
    /\ UNCHANGED <<settings, clients, request, args, state, audit_trail, frame,
                   posts_returned, images_returned, writes, result, response>>

\* SummarizerResume that answers a failed scraping request with a second
\* request, without scraping
SummarizerResume_falls_back(r, o) ==
    /\ pc[r] = "await_text"
    /\ LET posts_data == IF input_method(state[r]) = "url"
                         THEN generate_posts(settings.venice_api_key_set, o)
                         ELSE generate_posts_from_text(settings.venice_api_key_set, o)
       IN  IF posts_data.status = "error" /\ Len(calls[r]) = 1
           THEN /\ calls' = [calls EXCEPT ![r] = Append(@, TextCall(FALSE))]
                /\ UNCHANGED <<state, audit_trail, pc, posts_returned, frame>>
           ELSE /\ posts_returned' = [posts_returned EXCEPT ![r] = posts_data]
                /\ frame' = [frame EXCEPT ![r] = [text_outcome |-> o]]
                /\ Finish(r, summarizer_after(state[r], audit_trail[r], posts_data),
                          "creative")
                /\ UNCHANGED calls
    /\ UNCHANGED <<settings, clients, request, args, images_returned,
                   writes, result, response>>

\* the provider answers (or the call fails); the agent and the node finish
SummarizerResume(r, o) ==
    /\ pc[r] = "await_text"
    /\ LET posts_data == IF input_method(state[r]) = "url"
                         THEN generate_posts(settings.venice_api_key_set, o)
                         ELSE generate_posts_from_text(settings.venice_api_key_set, o)
       IN  /\ posts_returned' = [posts_returned EXCEPT ![r] = posts_data]
           /\ frame' = [frame EXCEPT ![r] = [text_outcome |-> o]]
           /\ Finish(r, summarizer_after(state[r], audit_trail[r], posts_data),
                     "creative")
    /\ UNCHANGED <<settings, clients, request, args, calls, images_returned,
                   writes, result, response>>

\* CreativeSkip with an edge from the skipped image stage to the end of the graph
CreativeSkip_to_end(r) ==
    /\ pc[r] = "creative"
    /\ state[r].error # <<>>
    /\ Finish(r, creative_skip(state[r], audit_trail[r]), "workflow_complete")
    /\ UNCHANGED <<settings, clients, request, args, frame, calls, posts_returned,
                   images_returned, writes, result, response>>

\* "Skip if previous step failed"
CreativeSkip(r) ==
    /\ pc[r] = "creative"
    /\ state[r].error # <<>>
    /\ Finish(r, creative_skip(state[r], audit_trail[r]), "coordinator")
    /\ UNCHANGED <<settings, clients, request, args, frame, calls, posts_returned,
                   images_returned, writes, result, response>>

\* generate_images posts the infographic request and awaits the answer
CreativeRequest(r) ==
    /\ pc[r] = "creative"
    /\ state[r].error = <<>>
    /\ calls' = [calls EXCEPT ![r] = Append(@, ImageCall("infographic"))]
    /\ pc' = [pc EXCEPT ![r] = "await_infographic"]
    /\ UNCHANGED <<settings, clients, request, args, state, audit_trail, frame,
                   posts_returned, images_returned, writes, result, response>>

GenerateImagesReturns(r, images_data) ==
    /\ images_returned' = [images_returned EXCEPT ![r] = images_data]
    /\ Finish(r, creative_after(state[r], audit_trail[r], images_data), "coordinator")

\* the infographic request failed, or the social prompt cannot be built
InfographicFails(r, o) ==
    /\ pc[r] = "await_infographic"
    /\ LET image == generate_image(o)
           prompt == social_prompt(article_title(state[r]))
       IN  /\ ~image.ok \/ ~prompt.ok
           /\ GenerateImagesReturns(r,
                  ErrorImages(IF ~image.ok THEN image.exc ELSE prompt.exc))
    /\ UNCHANGED <<settings, clients, request, args, frame, calls, posts_returned,
                   writes, result, response>>

\* the infographic came back: generate_images posts the social-image request
InfographicDone(r, o) ==
    /\ pc[r] = "await_infographic"
    /\ generate_image(o).ok
    /\ social_prompt(article_title(state[r])).ok
    /\ frame' = [frame EXCEPT ![r] = [infographic_image |-> generate_image(o).val]]
    /\ calls' = [calls EXCEPT ![r] = Append(@, ImageCall("social"))]
    /\ pc' = [pc EXCEPT ![r] = "await_social"]
    /\ UNCHANGED <<settings, clients, request, args, state, audit_trail,
                   posts_returned, images_returned, writes, result, response>>

\* SocialResume that hands out the infographic when the social request fails
SocialResume_keeps_infographic(r, o) ==
    /\ pc[r] = "await_social"
    /\ LET image == generate_image(o)
       IN  GenerateImagesReturns(r,
               IF image.ok THEN SuccessImages(frame[r].infographic_image, image.val)
               ELSE [ErrorImages(image.exc) EXCEPT
                        !.infographic_image = frame[r].infographic_image])
    /\ UNCHANGED <<settings, clients, request, args, frame, calls, posts_returned,
                   writes, result, response>>

\* the social-image request answers; generate_images and the node finish
SocialResume(r, o) ==
    /\ pc[r] = "await_social"
    /\ LET image == generate_image(o)
       IN  GenerateImagesReturns(r,
               IF image.ok THEN SuccessImages(frame[r].infographic_image, image.val)
               ELSE ErrorImages(image.exc))
    /\ UNCHANGED <<settings, clients, request, args, frame, calls, posts_returned,
                   writes, result, response>>

CoordinatorNode(r) ==
    /\ pc[r] = "coordinator"
    /\ Finish(r, coordinator_node(state[r], audit_trail[r]), "workflow_complete")
    /\ writes' = [writes EXCEPT ![r] = @ + 1]
    /\ UNCHANGED <<settings, clients, request, args, frame, calls, posts_returned,
                   images_returned, result, response>>

\* the graph runtime itself raises out of ainvoke
WorkflowRaises(r, exception) ==
    /\ pc[r] = "summarizer"
    /\ frame' = [frame EXCEPT ![r] =
                    [exception |-> exception, msg |-> <<"graph runtime failure">>]]
    /\ pc' = [pc EXCEPT ![r] = "raised"]
    /\ UNCHANGED <<settings, clients, request, args, state, audit_trail, calls,
                   posts_returned, images_returned, writes, result, response>>

-----------------------------------------------------------------------------

Next ==
    \/ \E r \in Requests, via \in Callers, url \in Urls, text \in ArticleTexts,
          flag \in BOOLEAN : Submit(r, via, url, text, flag)
    \/ \E r \in Requests : AppReject(r)
    \/ \E r \in Requests : AppCall(r)
    \/ \E r \in Requests : AppRespond(r)
    \/ \E r \in Requests : ProcessUrlReject(r)
    \/ \E r \in Requests : ProcessUrlStart(r)
    \/ \E r \in Requests : ProcessUrlFinish(r)
    \/ \E r \in Requests : SummarizerNoSource(r)
    \/ \E r \in Requests : SummarizerNoKey(r)
    \/ \E r \in Requests : SummarizerRequest(r)
    \/ \E r \in Requests, o \in TextOutcomes : SummarizerResume(r, o)
    \/ \E r \in Requests : CreativeSkip(r)
    \/ \E r \in Requests : CreativeRequest(r)
    \/ \E r \in Requests, o \in ImageOutcomes : InfographicFails(r, o)
    \/ \E r \in Requests, o \in ImageOutcomes : InfographicDone(r, o)
    \/ \E r \in Requests, o \in ImageOutcomes : SocialResume(r, o)
    \/ \E r \in Requests : CoordinatorNode(r)

Spec == Init /\ [][Next]_vars

\* the same program with a graph runtime that may raise
NextFaulty ==
    \/ Next
    \/ \E r \in Requests, e \in {"ValueError", "RuntimeError"} : WorkflowRaises(r, e)
    \/ \E r \in Requests : AppExcept(r)

SpecFaulty == Init /\ [][NextFaulty]_vars

-----------------------------------------------------------------------------
(* The same program under the scheduling of the event loop: a coroutine that *)
(* can run does run, and every provider request ends, with an answer or     *)
(* with its client timeout.                                                  *)

\* the steps of request r once it has been made
Run(r) ==
    \/ AppReject(r) \/ AppCall(r) \/ AppRespond(r)
    \/ ProcessUrlReject(r) \/ ProcessUrlStart(r) \/ ProcessUrlFinish(r)
    \/ SummarizerNoSource(r) \/ SummarizerNoKey(r) \/ SummarizerRequest(r)
    \/ \E o \in TextOutcomes : SummarizerResume(r, o)
    \/ CreativeSkip(r) \/ CreativeRequest(r)
    \/ \E o \in ImageOutcomes : InfographicFails(r, o)
    \/ \E o \in ImageOutcomes : InfographicDone(r, o)
    \/ \E o \in ImageOutcomes : SocialResume(r, o)
    \/ CoordinatorNode(r)

SpecLive == Init /\ [][Next]_vars /\ \A r \in Requests : WF_vars(Run(r))

-----------------------------------------------------------------------------
(* Two requests in flight at once through the one Coordinator of app.py.   *)
(* Each client has inputs and provider answers of its own, so that whatever *)
(* a request holds can be told from what the other request produced.       *)

Input(url, article_text, use_web_scraping) ==
    [url |-> url, article_text |-> article_text,
     use_web_scraping |-> use_web_scraping]

ClientInputs(r) ==
    IF r = "req1"
    THEN {Input("https://example.com/article", <<>>, TRUE),
          Input("https://example.com/article", <<>>, FALSE),
          Input("", <<>>, TRUE)}
    ELSE {Input("", Chars(28), FALSE), Input("", Chars(28), TRUE)}

ClientTextOutcomes(r) ==
    IF r = "req1"
    THEN {HttpAnswer(200, TRUE, Content(Braces, JsonDict(Doc(Str(Chars(5)))))),
          HttpAnswer(500, FALSE, Content(<<>>, DecodeError))}
    ELSE {HttpAnswer(200, TRUE, Content(Braces, JsonDict(Doc(Str(Chars(7)))))),
          HttpAnswer(200, TRUE, Content(Braces,
              JsonDict([Doc(Str(Chars(7))) EXCEPT !.article_title = None])))}

ClientImageOutcomes(r) ==
    IF r = "req1" THEN {ImageAnswer(200, <<PayloadA>>), ImageAnswer(500, <<>>)}
    ELSE {ImageAnswer(200, <<PayloadB>>), [kind |-> "timeout"]}

InitConcurrent ==
    /\ settings \in [venice_api_key_set : BOOLEAN]
    /\ clients = Requests
    /\ pc = [r \in Requests |-> "new"]
    /\ request = [r \in Requests |-> EmptyDict]
    /\ args = [r \in Requests |-> EmptyDict]
    /\ state = [r \in Requests |-> EmptyDict]
    /\ audit_trail = [r \in Requests |-> <<>>]
    /\ frame = [r \in Requests |-> EmptyDict]
    /\ calls = [r \in Requests |-> <<>>]
    /\ posts_returned = [r \in Requests |-> EmptyDict]
    /\ images_returned = [r \in Requests |-> EmptyDict]
    /\ writes = [r \in Requests |-> 0]
    /\ result = [r \in Requests |-> EmptyDict]
    /\ response = [r \in Requests |-> EmptyDict]

NextConcurrent ==
    \/ \E r \in Requests : \E via \in Callers, i \in ClientInputs(r) :
           Submit(r, via, i.url, i.article_text, i.use_web_scraping)
    \/ \E r \in Requests : AppReject(r)
    \/ \E r \in Requests : AppCall(r)
    \/ \E r \in Requests : AppRespond(r)
    \/ \E r \in Requests : ProcessUrlReject(r)
    \/ \E r \in Requests : ProcessUrlStart(r)
    \/ \E r \in Requests : ProcessUrlFinish(r)
    \/ \E r \in Requests : SummarizerNoSource(r)
    \/ \E r \in Requests : SummarizerNoKey(r)
    \/ \E r \in Requests : SummarizerRequest(r)
    \/ \E r \in Requests : \E o \in ClientTextOutcomes(r) : SummarizerResume(r, o)
    \/ \E r \in Requests : CreativeSkip(r)
    \/ \E r \in Requests : CreativeRequest(r)
    \/ \E r \in Requests : \E o \in ClientImageOutcomes(r) : InfographicFails(r, o)
    \/ \E r \in Requests : \E o \in ClientImageOutcomes(r) : InfographicDone(r, o)
    \/ \E r \in Requests : \E o \in ClientImageOutcomes(r) : SocialResume(r, o)
    \/ \E r \in Requests : CoordinatorNode(r)

SpecConcurrent == InitConcurrent /\ [][NextConcurrent]_vars

-----------------------------------------------------------------------------
(* Vocabulary of the properties *)

Accepted(r) == state[r] # EmptyDict
Returned(r) == result[r] # EmptyDict
Deref(r, ref) == IF ref.alias THEN audit_trail[r] ELSE ref.items
ReturnedTrail(r) == Deref(r, result[r].audit_trail)
Steps(trail) == [i \in 1..Len(trail) |-> trail[i].step]
FiveSteps == <<"workflow_start", "generate_posts", "generate_images",
               "compile_output", "workflow_complete">>
InvalidInput(q) == \/ q.url = "" /\ q.article_text = <<>>
                   \/ q.use_web_scraping /\ q.url = ""
ImageCalls(r) == {i \in 1..Len(calls[r]) : calls[r][i].api = "image/generate"}
TextCalls(r) == {i \in 1..Len(calls[r]) : calls[r][i].api = "chat/completions"}
TextFailed(r) == \/ Get(posts_returned[r], "status", "None") = "error"
                 \/ Accepted(r) /\ Get(state[r].posts_data, "status", "None") = "error"
AfterCreative(r) == pc[r] \in {"coordinator", "workflow_complete", "returned", "done"}

-----------------------------------------------------------------------------
(* C1 *)

\* C1: whenever process_url has accepted a request and returned, the audit
\* trail carried by the returned final output has exactly the five entries
\* workflow_start, generate_posts, generate_images, compile_output,
\* workflow_complete, whatever the stages did.
C1_ReturnedTrailHasFiveEntries ==
    \A r \in Requests :
        Accepted(r) /\ Returned(r) =>
            /\ Len(ReturnedTrail(r)) = 5
            /\ Steps(ReturnedTrail(r)) = FiveSteps

\* a run whose image stage was skipped has returned
C1_Witness ==
    \E r \in Requests :
        /\ Accepted(r) /\ Returned(r)
        /\ audit_trail[r][3].input = [reason |-> "skipped_due_to_error"]
        /\ Len(ReturnedTrail(r)) = 5

-----------------------------------------------------------------------------
(* C2 *)

\* C2: a request with neither url nor article_text, or with use_web_scraping
\* and no url, is rejected before any stage: no WorkflowState is made, no
\* provider is called, no workflow_start entry is recorded; process_url
\* returns an error with an empty audit trail and POST /process answers 400
\* without calling the coordinator.
C2_InvalidInputRejected ==
    \A r \in Requests :
        request[r] # EmptyDict /\ InvalidInput(request[r]) =>
            /\ pc[r] \in {"app", "process_url", "returned", "done"}
            /\ ~Accepted(r)
            /\ calls[r] = <<>>
            /\ audit_trail[r] = <<>>
            /\ writes[r] = 0
            /\ request[r].via = "direct" /\ pc[r] = "returned" =>
                   /\ result[r].status = "error"
                   /\ ReturnedTrail(r) = <<>>
            /\ request[r].via = "http" =>
                   /\ ~Returned(r)
                   /\ pc[r] = "done" => response[r].status_code = 400

\* process_url itself has rejected a request that has text, the scraping
\* flag and no url
C2_Witness ==
    \E r \in Requests :
        /\ pc[r] = "returned"
        /\ request[r].url = "" /\ request[r].article_text # <<>>
        /\ request[r].use_web_scraping
        /\ result[r].status = "error"

-----------------------------------------------------------------------------
(* C3 *)

\* C3: once the text stage has returned status=error, the image provider is
\* never called, the generate_images audit entry has status error, and the
\* final output carries no image payload.
C3_TextErrorMeansNoImages ==
    \A r \in Requests :
        TextFailed(r) =>
            /\ ImageCalls(r) = {}
            /\ AfterCreative(r) =>
                   /\ audit_trail[r][3].step = "generate_images"
                   /\ audit_trail[r][3].status = "error"
            /\ "images" \notin DOMAIN state[r].final_output
            /\ "images" \notin DOMAIN result[r]
            /\ "content" \notin DOMAIN response[r]

\* a run whose text request was answered with an error has returned
C3_Witness ==
    \E r \in Requests :
        /\ Get(posts_returned[r], "status", "None") = "error"
        /\ Returned(r)
        /\ TextCalls(r) # {}

-----------------------------------------------------------------------------
(* C4 *)

\* C4: the final output is assigned exactly once per accepted request, by
\* the coordinator node, it is what process_url returns, and its status
\* fixes its shape: success carries article, posts, images and the audit
\* trail; error carries the error message and the audit trail and neither
\* posts nor images.
C4_FinalOutputOnceAndShaped ==
    \A r \in Requests :
        /\ writes[r] <= 1
        /\ writes[r] = 1 <=> Accepted(r) /\ state[r].final_output # EmptyDict
        /\ Accepted(r) /\ Returned(r) =>
               /\ writes[r] = 1
               /\ result[r] = state[r].final_output
               /\ result[r].status \in {"success", "error"}
               /\ result[r].status = "success" =>
                      DOMAIN result[r] = {"status", "url", "article", "posts",
                                          "images", "audit_trail"}
               /\ result[r].status = "error" =>
                      /\ {"error", "audit_trail"} \subseteq DOMAIN result[r]
                      /\ DOMAIN result[r] \cap {"posts", "images", "article"} = {}
                      /\ result[r].error # <<>>

\* a successful run and its final output
C4_Witness ==
    \E r \in Requests :
        Accepted(r) /\ Returned(r) /\ result[r].status = "success"

-----------------------------------------------------------------------------
(* C5 *)

\* C5: POST /process answers 200, with the final output, exactly when
\* the coordinator returned status success; 400 when the input was rejected
\* or the coordinator returned status error; 500 only when an exception
\* left the coordinator.
C5_HttpStatusCodes ==
    \A r \in Requests :
        request[r] # EmptyDict /\ request[r].via = "http" /\ pc[r] = "done" =>
            /\ response[r].status_code \in {200, 400, 500}
            /\ response[r].status_code = 200 <=>
                   Returned(r) /\ result[r].status = "success"
            /\ response[r].status_code = 200 =>
                   response[r].content =
                       [result[r] EXCEPT !.audit_trail = OwnList(audit_trail[r])]
            /\ InvalidInput(request[r]) => response[r].status_code = 400
            /\ Returned(r) /\ result[r].status = "error" =>
                   /\ response[r].status_code = 400
                   /\ response[r].detail = result[r].error
            /\ response[r].status_code = 500 =>
                   /\ ~Returned(r)
                   /\ "exception" \in DOMAIN frame[r]

\* a 500 answer
C5_Witness ==
    \E r \in Requests : Get(response[r], "status_code", 0) = 500

-----------------------------------------------------------------------------
(* C6 *)

DirectTextOnly(q) == q.article_text # <<>> /\ q.url = "" /\ ~q.use_web_scraping
BeforeTextCall(r) == pc[r] \in {"new", "app", "process_url", "summarizer"}

\* C6: a request with article_text, no url and use_web_scraping false
\* is accepted and always takes the direct-text path: the one text request the
\* run issues has enable_web_scraping false, and no request with it true is
\* ever issued.
C6_DirectTextNeverScrapes ==
    \A r \in Requests :
        request[r] # EmptyDict /\ DirectTextOnly(request[r]) =>
            /\ \A i \in TextCalls(r) : ~calls[r][i].enable_web_scraping
            /\ ~BeforeTextCall(r) =>
                   /\ Accepted(r)
                   /\ audit_trail[r][1].input.method = "direct_text"
                   /\ settings.venice_api_key_set =>
                          /\ TextCalls(r) = {1}
                          /\ calls[r][1] = TextCall(FALSE)

\* such a request waits for the text provider's answer
C6_Witness ==
    \E r \in Requests :
        /\ pc[r] = "await_text"
        /\ DirectTextOnly(request[r])
        /\ calls[r] = <<TextCall(FALSE)>>

-----------------------------------------------------------------------------
(* C7 *)

-----------------------------------------------------------------------------
(* C8 *)

Answered(r) == pc[r] = "creative" /\ "text_outcome" \in DOMAIN frame[r]
AnsweredContent(r) == frame[r].text_outcome.content
GotContent(r) ==
    /\ Answered(r)
    /\ frame[r].text_outcome.kind = "response"
    /\ frame[r].text_outcome.status = 200
    /\ frame[r].text_outcome.choices
    /\ AnsweredContent(r).text # <<>>
ProviderPost(r) == Get(AnsweredContent(r).loads.d, "twitter_post", Str(<<>>))

\* C8: every twitter_post the text stage returns with status success,
\* parsed or fallback, has length at most 280, and so has the one in the
\* final output; when the provider's twitter_post is a string longer than 280
\* the stage returns its first 277 characters followed by "...".
C8_TwitterPostWithinCap ==
    \A r \in Requests :
        /\ Get(posts_returned[r], "status", "None") = "success" =>
               /\ HasLen(posts_returned[r].twitter_post)
               /\ PyLen(posts_returned[r].twitter_post) <= TWITTER_CAP
        /\ Accepted(r) /\ "posts" \in DOMAIN state[r].final_output =>
               PyLen(state[r].final_output.posts.twitter) <= TWITTER_CAP
        /\ ( /\ GotContent(r)
             /\ AnsweredContent(r).loads.ok
             /\ AnsweredContent(r).loads.ty = "dict"
             /\ ProviderPost(r).ty = "str"
             /\ PyLen(ProviderPost(r)) > TWITTER_CAP ) =>
               /\ posts_returned[r].status = "success"
               /\ posts_returned[r].twitter_post =
                      Str(SubSeq(ProviderPost(r).v, 1, 277) \o <<".", ".", ".">>)
               /\ PyLen(posts_returned[r].twitter_post) = 280

\* the provider's twitter_post had more than 280 characters
C8_Witness ==
    \E r \in Requests :
        /\ GotContent(r)
        /\ AnsweredContent(r).loads.ok
        /\ ProviderPost(r).ty = "str"
        /\ PyLen(ProviderPost(r)) > 281
        /\ posts_returned[r].status = "success"

-----------------------------------------------------------------------------
(* C9 *)

WrongType(d) ==
    \/ \E k \in DOMAIN d \cap {"linkedin_post", "twitter_post", "article_title"} :
           d[k].ty # "str"
    \/ "key_insights" \in DOMAIN d /\ d.key_insights.ty # "list"
Unparseable(c) == \/ ~c.loads.ok
                  \/ c.loads.ty # "dict"
                  \/ WrongType(c.loads.d)

\* C9: whenever the provider's content is not the expected object
\* (malformed JSON, JSON that is not an object, fields of the wrong type) the
\* text stage returns the degraded result, with status success.
C9_UnparseableDegrades ==
    \A r \in Requests :
        GotContent(r) /\ Unparseable(AnsweredContent(r)) =>
            /\ posts_returned[r].status # "error"
            /\ posts_returned[r] =
                   SuccessPosts(parse_fallback(StripFences(AnsweredContent(r).text)))

-----------------------------------------------------------------------------
(* C10 *)

\* the message the agent's provider call raises for a failed call
TransportMessage(r) ==
    IF input_method(state[r]) = "url"
    THEN call_venice_api(TRUE, frame[r].text_outcome).exc
    ELSE call_venice_api_direct(TRUE, frame[r].text_outcome).exc

\* C10: every transport failure of the text provider call, on either
\* path, is caught in the text stage and surfaces in the workflow state as
\* posts_data with status error and the message of its own category; the
\* run-level error is then set and no image request is made.
C10_TransportFailureSurfaces ==
    \A r \in Requests :
        Answered(r) /\ frame[r].text_outcome \in TransportFailures =>
            /\ posts_returned[r].status = "error"
            /\ state[r].posts_data.status = "error"
            /\ state[r].posts_data.error = TransportMessage(r)
            /\ state[r].error # <<>>
            /\ ImageCalls(r) = {}

-----------------------------------------------------------------------------
(* C11 *)

Payloads == {PayloadA, PayloadB}

\* the fields of an input or output summary that hold a Python value
ValueFields(step) ==
    IF step = "workflow_start" THEN {"url", "text_length"}
    ELSE {"article_title", "article_author", "article_date"}

\* the message msg has the characters of payload p somewhere in it
Within(p, msg) ==
    \E i \in 1..Len(msg) :
        /\ i + Len(p.v) - 1 <= Len(msg)
        /\ SubSeq(msg, i, i + Len(p.v) - 1) = p.v

\* the summary holds payload p: as a value, or inside its error message
Holds(step, summary, side, p) ==
    \/ \E f \in DOMAIN summary \cap ValueFields(step) : summary[f] = p
    \/ side = "output" /\ "error" \in DOMAIN summary /\ Within(p, summary.error)

\* the field names the summaries of each step may have
SummaryFields(step, side) ==
    IF side = "input"
    THEN CASE step = "workflow_start" -> {"method", "url", "text_length"}
           [] step = "generate_posts" ->
                  {"type", "url", "method", "text_length", "text_preview"}
           [] step = "generate_images" ->
                  {"reason", "error", "article_title", "key_insights_count",
                   "images_to_generate"}
           [] step = "compile_output" ->
                  {"has_error", "posts_data_available", "images_data_available",
                   "posts_status", "images_status"}
           [] OTHER -> {"total_duration_ms"}
    ELSE CASE step = "workflow_start" -> {"workflow_initialized"}
           [] step = "generate_posts" ->
                  {"error", "status", "linkedin_post_length", "twitter_post_length",
                   "key_insights_count", "article_title", "article_author",
                   "article_date"}
           [] step = "generate_images" ->
                  {"error", "status", "infographic_generated",
                   "social_image_generated", "infographic_size_chars",
                   "social_image_size_chars"}
           [] step = "compile_output" ->
                  {"error", "status", "output_keys", "audit_trail_entries"}
           [] OTHER -> {"status", "total_audit_entries"}

ImagesLogged(r) ==
    /\ Len(audit_trail[r]) >= 3
    /\ audit_trail[r][3].step = "generate_images"
    /\ audit_trail[r][3].status = "success"

\* C11: no audit entry of any run, on any path, holds an image payload in
\* its input or output summary; the generate_images entry of a successful
\* image stage describes the two images by a boolean and a length each, and
\* the payloads themselves are in the images field of the final output.
C11_NoPayloadInAudit ==
    \A r \in Requests :
        /\ \A i \in 1..Len(audit_trail[r]) :
               LET e == audit_trail[r][i]
               IN  /\ DOMAIN e.input \subseteq SummaryFields(e.step, "input")
                   /\ DOMAIN e.output \subseteq SummaryFields(e.step, "output")
                   /\ \A p \in Payloads : ~Holds(e.step, e.input, "input", p)
                   /\ \A p \in Payloads : ~Holds(e.step, e.output, "output", p)
        /\ ImagesLogged(r) =>
               LET out == audit_trail[r][3].output
               IN  /\ out.infographic_generated \in BOOLEAN
                   /\ out.social_image_generated \in BOOLEAN
                   /\ out.infographic_size_chars =
                          PyLen(state[r].images_data.infographic_image)
                   /\ out.social_image_size_chars =
                          PyLen(state[r].images_data.social_image)
        /\ ImagesLogged(r) /\ state[r].final_output # EmptyDict =>
               /\ state[r].final_output.images.infographic =
                      images_returned[r].infographic_image
               /\ state[r].final_output.images.social =
                      images_returned[r].social_image

\* a run that returned both payloads and logged the lengths 8 and 6
C11_Witness ==
    \E r \in Requests :
        /\ ImagesLogged(r) /\ Returned(r)
        /\ result[r].images = [infographic |-> PayloadA, social |-> PayloadB]
        /\ audit_trail[r][3].output.infographic_size_chars = 8
        /\ audit_trail[r][3].output.social_image_size_chars = 6

-----------------------------------------------------------------------------
(* C12 *)

StageStatuses(trail) == [i \in 1..Len(trail) |-> trail[i].status]

\* the text stage returned success and both image requests returned a payload
AllProvidersSucceeded(r) ==
    /\ Get(posts_returned[r], "status", "None") = "success"
    /\ Get(images_returned[r], "status", "None") = "success"
    /\ images_returned[r].infographic_image \in Payloads
    /\ images_returned[r].social_image \in Payloads

\* C12: scenario A.  A request with only article_text and use_web_scraping
\* false, whose text request and two image requests succeed, issues no
\* request with web scraping enabled and returns status success with both
\* image payloads and an audit trail of five entries, all with status success.
C12_ScenarioA ==
    \A r \in Requests :
        ( /\ request[r] # EmptyDict /\ DirectTextOnly(request[r])
          /\ AllProvidersSucceeded(r)
          /\ Returned(r) ) =>
            /\ calls[r] = <<TextCall(FALSE), ImageCall("infographic"),
                            ImageCall("social")>>
            /\ result[r].status = "success"
            /\ result[r].images.infographic = images_returned[r].infographic_image
            /\ result[r].images.social = images_returned[r].social_image
            /\ result[r].images.infographic \in Payloads
            /\ result[r].images.social \in Payloads
            /\ Len(ReturnedTrail(r)) = 5
            /\ StageStatuses(ReturnedTrail(r)) =
                   <<"success", "success", "success", "success", "success">>

\* scenario A has run to its end over POST /process
C12_Witness ==
    \E r \in Requests :
        /\ request[r] # EmptyDict /\ DirectTextOnly(request[r])
        /\ request[r].via = "http"
        /\ AllProvidersSucceeded(r)
        /\ pc[r] = "done"
        /\ response[r].status_code = 200

-----------------------------------------------------------------------------
(* C13 *)

\* the text request of r was made with web scraping and answered 500
ScrapingAnswered500(r) ==
    /\ Accepted(r)
    /\ input_method(state[r]) = "url"
    /\ "text_outcome" \in DOMAIN frame[r]
    /\ frame[r].text_outcome.kind = "response"
    /\ frame[r].text_outcome.status = 500

\* the message has the part saying that the URL could not be accessed
MentionsUrlAccess(msg) ==
    \E i \in 1..Len(msg) :
        msg[i] = "Web scraping failed: Venice.ai could not access this URL."

\* C13: scenario B.  A request with a url and use_web_scraping true whose
\* provider call is answered 500 returns status error, with an error message
\* saying that the URL could not be accessed, and without image payloads.
C13_ScenarioB ==
    \A r \in Requests :
        ScrapingAnswered500(r) /\ Returned(r) =>
            /\ result[r].status = "error"
            /\ MentionsUrlAccess(result[r].error)
            /\ "images" \notin DOMAIN result[r]
            /\ ImageCalls(r) = {}

-----------------------------------------------------------------------------
(* C14 *)

OwnPayloads(r) == {generate_image(o).val : o \in {a \in ClientImageOutcomes(r) :
                                                      generate_image(a).ok}}
OwnPosts(r) ==
    {generate_posts(TRUE, o) : o \in ClientTextOutcomes(r)}
    \cup {generate_posts_from_text(TRUE, o) : o \in ClientTextOutcomes(r)}
    \cup {ErrorPosts(MsgNoKey)}

\* What request r's state and audit trail are after n entries when nothing but
\* r's own arguments and r's own agents' returns went into them.
OwnRun(r, n) ==
    LET unmade == [state |-> EmptyDict, trail |-> <<>>]
        r1 == [state |-> initial_state(args[r]),
               trail |-> <<workflow_start(args[r])>>]
        r2 == IF input_method(r1.state) = "none"
              THEN summarizer_except(r1.state, r1.trail,
                       <<"Either URL with web scraping enabled or article_text must be provided">>)
              ELSE IF posts_returned[r] = EmptyDict THEN unmade
              ELSE summarizer_after(r1.state, r1.trail, posts_returned[r])
        r3 == IF r2 = unmade THEN unmade
              ELSE IF r2.state.error # <<>> THEN creative_skip(r2.state, r2.trail)
              ELSE IF images_returned[r] = EmptyDict THEN unmade
              ELSE creative_after(r2.state, r2.trail, images_returned[r])
        r4 == IF r3 = unmade THEN unmade
              ELSE coordinator_node(r3.state, r3.trail)
        r5 == IF r4 = unmade THEN unmade
              ELSE [state |-> r4.state,
                    trail |-> workflow_complete(r4.state, r4.trail)]
    IN  CASE n = 1 -> r1 [] n = 2 -> r2 [] n = 3 -> r3 [] n = 4 -> r4
          [] OTHER -> r5

Isolated(r) ==
    /\ args[r] # EmptyDict =>
           args[r] = Input(request[r].url, request[r].article_text,
                           request[r].use_web_scraping)
    /\ posts_returned[r] # EmptyDict => posts_returned[r] \in OwnPosts(r)
    /\ images_returned[r] # EmptyDict =>
           /\ images_returned[r].infographic_image \in OwnPayloads(r) \cup {None}
           /\ images_returned[r].social_image \in OwnPayloads(r) \cup {None}
    /\ ~Accepted(r) => audit_trail[r] = <<>>
    /\ Accepted(r) =>
           /\ Len(audit_trail[r]) \in 1..5
           /\ state[r] = OwnRun(r, Len(audit_trail[r])).state
           /\ audit_trail[r] = OwnRun(r, Len(audit_trail[r])).trail
           /\ Returned(r) =>
                  /\ result[r] = state[r].final_output
                  /\ Get(result[r], "url", "None") = request[r].url
                  /\ "images" \in DOMAIN result[r] =>
                         /\ result[r].images.infographic \in OwnPayloads(r)
                         /\ result[r].images.social \in OwnPayloads(r)
    /\ "content" \in DOMAIN response[r] =>
           response[r].content =
               [result[r] EXCEPT !.audit_trail = OwnList(audit_trail[r])]

\* a step that belongs to request r leaves everything of the others alone
OnlyTouches(r) ==
    /\ settings' = settings
    /\ \A q \in Requests \ {r} :
           /\ pc'[q] = pc[q] /\ request'[q] = request[q] /\ args'[q] = args[q]
           /\ state'[q] = state[q] /\ audit_trail'[q] = audit_trail[q]
           /\ frame'[q] = frame[q] /\ calls'[q] = calls[q]
           /\ posts_returned'[q] = posts_returned[q]
           /\ images_returned'[q] = images_returned[q]
           /\ writes'[q] = writes[q] /\ result'[q] = result[q]
           /\ response'[q] = response[q]

\* C14: with two requests in flight through the one Coordinator, under
\* every interleaving of their steps, each request's WorkflowState, audit
\* trail, posts, images, final output and response are exactly what its own
\* arguments and its own stages' returns make them, and no step of one request
\* changes anything of the other.
C14_RequestsIsolated ==
    /\ [](\A r \in Requests : Isolated(r))
    /\ [][\E r \in Requests : OnlyTouches(r)]_vars

\* both requests are inside their image stage, each with its own posts
C14_Witness ==
    /\ pc["req1"] = "await_social" /\ pc["req2"] = "await_infographic"
    /\ state["req1"].posts_data.twitter_post = Str(Chars(5))
    /\ state["req2"].posts_data.twitter_post = Str(Chars(7))
    /\ frame["req1"].infographic_image = PayloadA

-----------------------------------------------------------------------------
(* C15 *)

Skipped == [reason |-> "skipped_due_to_error"]

\* the stage that made entry i of r's trail had set the run-level error
ErrorSetBy(r, i) == Len(audit_trail[r]) >= i /\ audit_trail[r][i].status = "error"

\* C15 as stated: once a stage has set the run-level error, the image
\* stage and finalize each record an entry with status error whose input
\* summary is {reason: skipped_due_to_error}.
C15_LaterStagesMarkedSkipped ==
    \A r \in Requests :
        /\ ErrorSetBy(r, 2) /\ Len(audit_trail[r]) >= 3 =>
               /\ audit_trail[r][3].status = "error"
               /\ audit_trail[r][3].input = Skipped
        /\ (ErrorSetBy(r, 2) \/ ErrorSetBy(r, 3)) /\ Len(audit_trail[r]) >= 4 =>
               /\ audit_trail[r][4].status = "error"
               /\ audit_trail[r][4].input = Skipped

\* C15 as amended: once a stage has set the run-level error every later
\* stage still executes and records an entry with status error.  The image
\* stage makes no provider request and records the input summary
\* {reason: skipped_due_to_error}; finalize records the input summary
\* {has_error: true} and assembles the error final output.
C15_LaterStagesRecordError ==
    \A r \in Requests :
        /\ ErrorSetBy(r, 2) =>
               /\ pc[r] \notin {"await_infographic", "await_social"}
               /\ ImageCalls(r) = {}
               /\ images_returned[r] = EmptyDict
               /\ AfterCreative(r) => Len(audit_trail[r]) >= 3
               /\ Len(audit_trail[r]) >= 3 =>
                      /\ audit_trail[r][3].step = "generate_images"
                      /\ audit_trail[r][3].status = "error"
                      /\ audit_trail[r][3].input = Skipped
                      /\ state[r].images_data =
                             [status |-> "error", error |-> <<"Previous step failed">>]
        /\ ErrorSetBy(r, 2) \/ ErrorSetBy(r, 3) =>
               /\ pc[r] \in {"workflow_complete", "returned", "done"} =>
                      Len(audit_trail[r]) >= 4
               /\ Len(audit_trail[r]) >= 4 =>
                      /\ audit_trail[r][4].step = "compile_output"
                      /\ audit_trail[r][4].status = "error"
                      /\ audit_trail[r][4].input = [has_error |-> TRUE]
                      /\ audit_trail[r][4].output = [error |-> state[r].error]
                      /\ state[r].final_output.status = "error"

\* a run whose text stage set the error has been through both later stages
C15_Witness ==
    \E r \in Requests :
        /\ ErrorSetBy(r, 2)
        /\ Len(audit_trail[r]) >= 4
        /\ audit_trail[r][3].input = Skipped
        /\ audit_trail[r][4].input = [has_error |-> TRUE]

-----------------------------------------------------------------------------
(* C16 *)

PhaseOrder == <<"Start", "Resolving", "GeneratingText", "GeneratingImages",
                "Finalizing", "Done">>

\* the place in PhaseOrder of a position of the coroutine; 0 for a position
\* that is none of the six states
PhaseOf(p) ==
    CASE p \in {"new", "app"} -> 1
      [] p = "process_url" -> 2
      [] p \in {"summarizer", "await_text"} -> 3
      [] p \in {"creative", "await_infographic", "await_social"} -> 4
      [] p \in {"coordinator", "workflow_complete"} -> 5
      [] p \in {"returned", "done"} -> 6
      [] OTHER -> 0

\* the stages that have returned, by where the run stands
EntriesAt(p) ==
    CASE p \in {"summarizer", "await_text"} -> 1
      [] p \in {"creative", "await_infographic", "await_social"} -> 2
      [] p = "coordinator" -> 3
      [] p = "workflow_complete" -> 4
      [] OTHER -> 5

InOrder(r) ==
    /\ PhaseOf(pc[r]) \in 1..6
    /\ Accepted(r) =>
           /\ PhaseOf(pc[r]) >= 3
           /\ Steps(audit_trail[r]) = SubSeq(FiveSteps, 1, EntriesAt(pc[r]))

OneStateAtATime(r) ==
    /\ PhaseOf(pc'[r]) >= PhaseOf(pc[r])
    /\ Accepted(r)' => PhaseOf(pc'[r]) <= PhaseOf(pc[r]) + 1
    /\ PhaseOf(pc[r]) = 6 => PhaseOf(pc'[r]) = 6

\* C16: every accepted run goes through Start, Resolving, GeneratingText,
\* GeneratingImages, Finalizing, Done in that order, one state at a time, a
\* stage starting only when the entries of all earlier stages are in the
\* trail; a failure skips no state and adds none; every run that has been
\* made reaches Done, and a run with no step left is in Done.
C16_PhasesInOrder ==
    /\ [](\A r \in Requests : InOrder(r))
    /\ [][\A r \in Requests : OneStateAtATime(r)]_vars
    /\ \A r \in Requests :
           (request[r] # EmptyDict) ~> (PhaseOf(pc[r]) = 6)
    /\ [](\A r \in Requests :
              request[r] # EmptyDict /\ ~ENABLED Run(r) => PhaseOf(pc[r]) = 6)

\* a run whose text stage failed is in Finalizing, its image stage done
C16_Witness ==
    \E r \in Requests :
        /\ pc[r] = "coordinator"
        /\ state[r].error # <<>>
        /\ ErrorSetBy(r, 2)
        /\ Steps(audit_trail[r]) = SubSeq(FiveSteps, 1, 3)

-----------------------------------------------------------------------------
(* C17 *)

Finalized(r) == Accepted(r) /\ pc[r] \in {"workflow_complete", "returned", "done"}

\* C17: finalize always produces a final output, whatever the earlier
\* stages left in posts_data and images_data: the node can always run, and
\* once it has run the final output is there, with status error exactly when
\* the run-level error is set and status success otherwise.
C17_FinalizeNeverFails ==
    \A r \in Requests :
        /\ pc[r] = "coordinator" => ENABLED CoordinatorNode(r)
        /\ Finalized(r) =>
               /\ state[r].final_output # EmptyDict
               /\ state[r].final_output.status \in {"success", "error"}
               /\ state[r].final_output.status = "error" <=> state[r].error # <<>>
               /\ state[r].error # <<>> =>
                      state[r].final_output.error = state[r].error

\* finalize has run on a state whose posts are a success and whose error is
\* set, by the image stage
C17_Witness ==
    \E r \in Requests :
        /\ Finalized(r)
        /\ state[r].posts_data.status = "success"
        /\ state[r].error # <<>>
        /\ state[r].final_output.status = "error"

-----------------------------------------------------------------------------
(* C18 *)

\* request r takes a step that ends a stage, or one of the two System steps
EndsStage(r) == EntriesAt(pc'[r]) # EntriesAt(pc[r]) \/ (~Accepted(r) /\ Accepted(r)')

OneEntryPerStage(r) ==
    Accepted(r)' =>
        IF EndsStage(r)
        THEN /\ Len(audit_trail'[r]) = Len(audit_trail[r]) + 1
             /\ SubSeq(audit_trail'[r], 1, Len(audit_trail[r])) = audit_trail[r]
        ELSE audit_trail'[r] = audit_trail[r]

\* C18: in every accepted run the steps of the audit trail are, in
\* order, workflow_start, generate_posts, generate_images, compile_output,
\* workflow_complete.  The trail starts with workflow_start before the first
\* stage runs, every stage adds exactly one entry when it ends, on each of its
\* paths, and workflow_complete is added last, after compile_output.
C18_OneEntryPerStageInOrder ==
    /\ [](\A r \in Requests :
              Accepted(r) =>
                  /\ Steps(audit_trail[r]) =
                         SubSeq(FiveSteps, 1, Len(audit_trail[r]))
                  /\ Len(audit_trail[r]) = EntriesAt(pc[r])
                  /\ PhaseOf(pc[r]) = 6 => Steps(audit_trail[r]) = FiveSteps)
    /\ [][\A r \in Requests : OneEntryPerStage(r)]_vars

\* a run has ended whose image stage logged a caught exception
C18_Witness ==
    \E r \in Requests :
        /\ Accepted(r) /\ Returned(r)
        /\ audit_trail[r][3].input = [error |-> "exception"]
        /\ audit_trail[r][2].status = "success"
        /\ Steps(audit_trail[r]) = FiveSteps

-----------------------------------------------------------------------------
(* C19 *)

IsPrefix(a, b) == Len(a) <= Len(b) /\ SubSeq(b, 1, Len(a)) = a

\* C19: the audit trail is append-only.  In every step of every run the
\* trail before the step is a prefix of the trail after it: no entry is
\* removed, moved, merged with another or changed once it is in the list.
C19_TrailAppendOnly ==
    [][\A r \in Requests : IsPrefix(audit_trail[r], audit_trail'[r])]_vars

\* a trail that has grown to its five entries, the first still workflow_start
C19_Witness ==
    \E r \in Requests :
        /\ Len(audit_trail[r]) = 5
        /\ audit_trail[r][1] = workflow_start(args[r])
        /\ audit_trail[r][5].step = "workflow_complete"

-----------------------------------------------------------------------------
(* C20 *)

ErrorSet(r) == Accepted(r) /\ state[r].error # <<>>

ErrorKept(r) ==
    ErrorSet(r) =>
        /\ state'[r].error = state[r].error
        /\ calls'[r] = calls[r]

\* the error message of the result the first failing agent returned; empty
\* when the failure was raised in the node itself
StageError(r) ==
    IF Get(posts_returned[r], "status", "None") = "error"
    THEN posts_returned[r].error
    ELSE IF Get(images_returned[r], "status", "None") = "error"
    THEN images_returned[r].error
    ELSE <<>>

\* C20: once the run-level error is set no step of the run clears or
\* replaces it and no step issues a provider request, and the error message of
\* the final output is the message of the first stage that failed: it ends
\* with the error message that stage returned.
C20_FirstStageErrorKept ==
    /\ [][\A r \in Requests : ErrorKept(r)]_vars
    /\ [](\A r \in Requests :
              ErrorSet(r) =>
                  /\ pc[r] \notin {"await_text", "await_infographic", "await_social"}
                  /\ state[r].final_output # EmptyDict =>
                         /\ state[r].final_output.error = state[r].error
                         /\ EndsWith(state[r].final_output.error, StageError(r)))

\* What does hold of C20: the error, once set, stays as it is up to the
\* final output and the returned result, and no provider request follows it.
ErrorIsSticky ==
    /\ [][\A r \in Requests : ErrorKept(r)]_vars
    /\ [](\A r \in Requests :
              ErrorSet(r) =>
                  /\ pc[r] \notin {"await_text", "await_infographic", "await_social"}
                  /\ state[r].final_output # EmptyDict =>
                         state[r].final_output.error = state[r].error
                  /\ Returned(r) => result[r].error = state[r].error)

-----------------------------------------------------------------------------
(* C21 *)

ImagesReturned(r) == images_returned[r] # EmptyDict

\* What holds of C21: whatever the image provider does, generate_images
\* returns, with a result tagged success or error, and an error result has
\* both image fields None.
ImageStageAlwaysReturns ==
    \A r \in Requests :
        /\ pc[r] = "await_infographic" =>
               \A o \in ImageOutcomes :
                   ENABLED InfographicFails(r, o) \/ ENABLED InfographicDone(r, o)
        /\ pc[r] = "await_social" => \A o \in ImageOutcomes : ENABLED SocialResume(r, o)
        /\ ImagesReturned(r) =>
               /\ images_returned[r].status \in {"success", "error"}
               /\ images_returned[r].status = "error" =>
                      /\ "error" \in DOMAIN images_returned[r]
                      /\ images_returned[r].infographic_image = None
                      /\ images_returned[r].social_image = None

\* C21: the image stage never raises past its boundary: for every
\* outcome of the image provider generate_images returns a result tagged
\* success or error, and every failure yields status error with a message and
\* both image fields None.
C21_ImageFailureHasMessage ==
    \A r \in Requests :
        ImagesReturned(r) =>
            /\ images_returned[r].status \in {"success", "error"}
            /\ images_returned[r].status = "error" =>
                   /\ images_returned[r].error # <<>>
                   /\ images_returned[r].infographic_image = None
                   /\ images_returned[r].social_image = None

-----------------------------------------------------------------------------
(* C22 *)

CallsOf(r, call) == {i \in 1..Len(calls[r]) : calls[r][i] = call}

\* where the request for one of the two images stands
ImageRequest(r, which) ==
    IF CallsOf(r, ImageCall(which)) = {} THEN "NotStarted"
    ELSE IF pc[r] = (IF which = "infographic" THEN "await_infographic"
                     ELSE "await_social")
    THEN "Requested"
    ELSE "CompletedOrFailed"

ImageRequestMoves(r, which) ==
    \/ ImageRequest(r, which)' = ImageRequest(r, which)
    \/ ImageRequest(r, which) = "NotStarted" /\ ImageRequest(r, which)' = "Requested"
    \/ /\ ImageRequest(r, which) = "Requested"
       /\ ImageRequest(r, which)' = "CompletedOrFailed"

\* C22: no remote call is retried.  Within one run there is at most one
\* request to the text provider, at most one request for each of the two
\* images, in the order text, infographic, social; each image request goes
\* NotStarted, Requested, Completed or Failed and never back; and once the text
\* request has failed no second text request (the fallback call) follows.
C22_NoRetry ==
    /\ [](\A r \in Requests :
              /\ Cardinality(TextCalls(r)) <= 1
              /\ Cardinality(CallsOf(r, ImageCall("infographic"))) <= 1
              /\ Cardinality(CallsOf(r, ImageCall("social"))) <= 1
              /\ \E scraping \in BOOLEAN :
                     IsPrefix(calls[r], <<TextCall(scraping), ImageCall("infographic"),
                                          ImageCall("social")>>)
              /\ TextFailed(r) => Len(calls[r]) <= 1)
    /\ [][\A r \in Requests :
              /\ IsPrefix(calls[r], calls'[r])
              /\ Len(calls'[r]) <= Len(calls[r]) + 1
              /\ ImageRequestMoves(r, "infographic")
              /\ ImageRequestMoves(r, "social")]_vars

\* a run has returned whose social-image request failed: three requests in
\* all, none repeated
C22_Witness ==
    \E r \in Requests :
        /\ Returned(r)
        /\ Len(calls[r]) = 3
        /\ ImagesReturned(r) /\ images_returned[r].status = "error"
        /\ ImageRequest(r, "social") = "CompletedOrFailed"

-----------------------------------------------------------------------------
(* C23 *)

UrlWithoutScraping(q) == q.url # "" /\ ~q.use_web_scraping /\ q.article_text = <<>>

MsgNoSource ==
    <<"Summarizer error: ",
      "Either URL with web scraping enabled or article_text must be provided">>

\* C23: a request with a url, use_web_scraping false and no
\* article_text is not rejected, neither by POST /process nor by process_url:
\* it is accepted, the text stage finds no content source and logs an error
\* without calling a provider, the image stage is skipped, and the run returns
\* status error with a five-entry audit trail; POST /process answers 400 with
\* the text stage's error.
C23_UrlWithoutScrapingRuns ==
    \A r \in Requests :
        request[r] # EmptyDict /\ UrlWithoutScraping(request[r]) =>
            /\ calls[r] = <<>>
            /\ PhaseOf(pc[r]) >= 3 => Accepted(r)
            /\ PhaseOf(pc[r]) >= 4 =>
                   /\ state[r].error = MsgNoSource
                   /\ audit_trail[r][2].step = "generate_posts"
                   /\ audit_trail[r][2].status = "error"
            /\ PhaseOf(pc[r]) >= 5 => audit_trail[r][3].input = Skipped
            /\ Returned(r) =>
                   /\ result[r].status = "error"
                   /\ result[r].error = MsgNoSource
                   /\ Len(ReturnedTrail(r)) = 5
            /\ pc[r] = "done" =>
                   response[r] = [status_code |-> 400, detail |-> MsgNoSource]

\* such a request, sent to POST /process, has been answered
C23_Witness ==
    \E r \in Requests :
        /\ request[r] # EmptyDict /\ UrlWithoutScraping(request[r])
        /\ request[r].via = "http"
        /\ pc[r] = "done"
        /\ Len(audit_trail[r]) = 5

-----------------------------------------------------------------------------
(* C24 *)

EntryStatus(r, i) == audit_trail[r][i].status

\* C24: in every accepted run every audit entry has status success or
\* error and workflow_start has success; once the final output is there its
\* status is success exactly when the generate_posts and the generate_images
\* entries both have success, and the compile_output and workflow_complete
\* entries have the status of the final output.
C24_StatusesAgree ==
    \A r \in Requests :
        Accepted(r) =>
            /\ \A i \in 1..Len(audit_trail[r]) : EntryStatus(r, i) \in {"success", "error"}
            /\ EntryStatus(r, 1) = "success"
            /\ Len(audit_trail[r]) >= 4 =>
                   /\ state[r].final_output.status = "success" <=>
                          EntryStatus(r, 2) = "success" /\ EntryStatus(r, 3) = "success"
                   /\ EntryStatus(r, 4) = state[r].final_output.status
            /\ Len(audit_trail[r]) >= 5 =>
                   /\ EntryStatus(r, 5) = state[r].final_output.status
                   /\ audit_trail[r][5].output.status = state[r].final_output.status

\* a run has ended in error whose text entry is a success and whose image
\* entry is an error
C24_Witness ==
    \E r \in Requests :
        /\ Accepted(r) /\ Len(audit_trail[r]) = 5
        /\ EntryStatus(r, 2) = "success" /\ EntryStatus(r, 3) = "error"
        /\ EntryStatus(r, 4) = "error" /\ EntryStatus(r, 5) = "error"
        /\ state[r].final_output.status = "error"

-----------------------------------------------------------------------------
(* C25 *)

\* the text stage succeeded, the image stage failed, and the run has returned
PostsButNoImages(r) ==
    /\ Accepted(r) /\ Returned(r)
    /\ EntryStatus(r, 2) = "success"
    /\ EntryStatus(r, 3) = "error"

MetadataFields == {"article_title", "article_author", "article_date"}

-----------------------------------------------------------------------------
(* C26 *)

InfographicRendered(r) == "infographic_image" \in DOMAIN frame[r]

\* C26: the two image requests are made one after the other, the social
\* one only once the infographic request has returned an image; when the
\* infographic request fails no social request is made; and when either fails
\* the result has status error with both image fields None, an infographic
\* that was rendered being dropped.
C26_ImagesAllOrNothing ==
    \A r \in Requests :
        /\ CallsOf(r, ImageCall("social")) # {} =>
               /\ InfographicRendered(r)
               /\ CallsOf(r, ImageCall("infographic")) = {Len(calls[r]) - 1}
               /\ CallsOf(r, ImageCall("social")) = {Len(calls[r])}
        /\ pc[r] = "await_social" => ImageRequest(r, "infographic") = "CompletedOrFailed"
        /\ ImagesReturned(r) /\ ~InfographicRendered(r) =>
               /\ CallsOf(r, ImageCall("social")) = {}
               /\ images_returned[r].status = "error"
        /\ ImagesReturned(r) /\ images_returned[r].status = "error" =>
               /\ images_returned[r].infographic_image = None
               /\ images_returned[r].social_image = None
               /\ Finalized(r) => "images" \notin DOMAIN state[r].final_output
        /\ ImagesReturned(r) /\ images_returned[r].status = "success" =>
               /\ InfographicRendered(r)
               /\ images_returned[r].infographic_image = frame[r].infographic_image

\* the infographic was rendered, the social request failed, and the result
\* holds neither
C26_Witness ==
    \E r \in Requests :
        /\ ImagesReturned(r) /\ InfographicRendered(r)
        /\ frame[r].infographic_image = PayloadA
        /\ images_returned[r].status = "error"
        /\ images_returned[r].infographic_image = None

-----------------------------------------------------------------------------
(* C27 *)

\* the results the text stage returns for content that is not valid JSON
DegradedPosts ==
    {SuccessPosts(parse_fallback(StripFences(c.text))) : c \in MalformedContents}

Degraded(r) == posts_returned[r] \in DegradedPosts

\* C27: content of the text provider that is not valid JSON comes back
\* from the text stage as a result with status success, the placeholder title
\* and no insights; the run-level error stays unset, the generate_posts entry
\* is a success, and the image stage is not skipped: it requests the images
\* for the placeholder title.
C27_DegradedIsSuccess ==
    \A r \in Requests :
        /\ GotContent(r) /\ ~AnsweredContent(r).loads.ok => Degraded(r)
        /\ Degraded(r) =>
               /\ posts_returned[r].status = "success"
               /\ posts_returned[r].article_title = Untitled
               /\ posts_returned[r].key_insights = List(<<>>)
               /\ state[r].posts_data = posts_returned[r]
               /\ EntryStatus(r, 2) = "success"
               /\ pc[r] = "creative" =>
                      /\ state[r].error = <<>>
                      /\ ENABLED CreativeRequest(r)
                      /\ ~ENABLED CreativeSkip(r)
               /\ PhaseOf(pc[r]) >= 5 =>
                      /\ calls[r][2] = ImageCall("infographic")
                      /\ audit_trail[r][3].input # Skipped
                      /\ EntryStatus(r, 3) = "success" =>
                             audit_trail[r][3].input =
                                 [article_title |-> Untitled, key_insights_count |-> 0,
                                  images_to_generate |-> <<"infographic", "social_media">>]

\* a run on degraded text has returned status success, with both images
C27_Witness ==
    \E r \in Requests :
        /\ Degraded(r) /\ Returned(r)
        /\ result[r].status = "success"
        /\ result[r].article.title = Untitled
        /\ result[r].images.social \in Payloads

-----------------------------------------------------------------------------
(* C28 *)

BothSupplied(r) ==
    Accepted(r) /\ state[r].url # "" /\ state[r].article_text # <<>>

PastTextStage(r) == PhaseOf(pc[r]) >= 4

\* C28 as stated: a run given both a url and article_text issues exactly one
\* text-provider request, with web scraping as the flag says.
C28_ExactlyOneRequest ==
    \A r \in Requests :
        BothSupplied(r) /\ PastTextStage(r) =>
            /\ TextCalls(r) = {1}
            /\ calls[r][1] = TextCall(state[r].use_web_scraping)

\* C28: when both a url and article_text are supplied, use_web_scraping alone
\* selects the path: the only text-provider request a run can issue is the
\* scraping request for the url when the flag is true and the request without
\* scraping for the text when it is false; with an API key configured exactly
\* that one request is issued, and without one none is. The generate_posts
\* entry of a text stage that succeeded describes the selected source only.
C28_FlagSelectsPath ==
    \A r \in Requests :
        BothSupplied(r) =>
            /\ input_method(state[r]) =
                   IF state[r].use_web_scraping THEN "url" ELSE "text"
            /\ audit_trail[r][1].input.method =
                   IF state[r].use_web_scraping THEN "url_with_scraping"
                   ELSE "direct_text"
            /\ \A i \in TextCalls(r) :
                   i = 1 /\ calls[r][i] = TextCall(state[r].use_web_scraping)
            /\ pc[r] = "await_text" => TextCalls(r) = {1}
            /\ PastTextStage(r) =>
                   /\ TextCalls(r) = IF settings.venice_api_key_set THEN {1} ELSE {}
                   /\ EntryStatus(r, 2) = "success" =>
                          DOMAIN audit_trail[r][2].input =
                              IF state[r].use_web_scraping
                              THEN {"type", "url", "method"}
                              ELSE {"type", "text_length", "text_preview", "method"}

\* both paths have been taken by runs that were given both sources
C28_Witness ==
    \E r \in Requests :
        /\ BothSupplied(r) /\ PastTextStage(r)
        /\ state[r].use_web_scraping
        /\ TextCalls(r) = {1}
        /\ calls[r][1] = TextCall(TRUE)
        /\ EntryStatus(r, 2) = "success"

C28_WitnessDirect ==
    \E r \in Requests :
        /\ BothSupplied(r) /\ PastTextStage(r)
        /\ ~state[r].use_web_scraping
        /\ TextCalls(r) = {1}
        /\ calls[r][1] = TextCall(FALSE)
        /\ EntryStatus(r, 2) = "success"

-----------------------------------------------------------------------------
(* C29 *)

AnsweredOverHttp(r) ==
    request[r] # EmptyDict /\ request[r].via = "http" /\ pc[r] = "done"

EndedInError(r) == Returned(r) /\ result[r].status = "error"

\* C29: when a run ends with status error, the answer of POST /process is a
\* 400 whose only content is the error message as detail; the audit trail the
\* failed run recorded, five entries long, is in the result the coordinator
\* returned but in no field of the HTTP answer.
C29_ErrorAnswerHasNoTrail ==
    \A r \in Requests :
        AnsweredOverHttp(r) /\ EndedInError(r) =>
            /\ Len(ReturnedTrail(r)) = 5
            /\ response[r] = [status_code |-> 400, detail |-> result[r].error]
            /\ DOMAIN response[r] = {"status_code", "detail"}

\* a failed run, trail recorded, answered over HTTP
C29_Witness ==
    \E r \in Requests :
        /\ AnsweredOverHttp(r) /\ EndedInError(r)
        /\ Len(audit_trail[r]) = 5
        /\ response[r].status_code = 400

-----------------------------------------------------------------------------
(* C30 *)

\* the entries of r's trail whose output carries the count under field
Counting(r, field) ==
    {i \in 1..Len(audit_trail[r]) : field \in DOMAIN audit_trail[r][i].output}

\* C30: the entry counts inside audit entries are taken before the entry is
\* appended.  The compile_output entry of a successful run is the fourth and
\* records audit_trail_entries = 3; the workflow_complete entry of an accepted
\* run is the fifth and records total_audit_entries = 4; each count is one
\* less than the length of the trail once its entry is in it.
C30_CountsExcludeOwnEntry ==
    \A r \in Requests :
        Accepted(r) =>
            /\ \A i \in Counting(r, "audit_trail_entries") :
                   /\ audit_trail[r][i].step = "compile_output"
                   /\ audit_trail[r][i].output.audit_trail_entries = i - 1
                   /\ i = 4
            /\ \A i \in Counting(r, "total_audit_entries") :
                   /\ audit_trail[r][i].step = "workflow_complete"
                   /\ audit_trail[r][i].output.total_audit_entries = i - 1
                   /\ i = 5
                   /\ i = Len(audit_trail[r])
            /\ Returned(r) => Counting(r, "total_audit_entries") = {5}
            /\ Returned(r) /\ result[r].status = "success" =>
                   Counting(r, "audit_trail_entries") = {4}

\* a successful run has returned with both counts in its trail
C30_Witness ==
    \E r \in Requests :
        /\ Returned(r) /\ result[r].status = "success"
        /\ Len(audit_trail[r]) = 5
        /\ audit_trail[r][4].output.audit_trail_entries = 3
        /\ audit_trail[r][5].output.total_audit_entries = 4

====
